---- MODULE Spec2Model ----
(***************************************************************************)
(* State-machine model of the vaultix master-key vault                      *)
(* (internal/vault, internal/storage, internal/crypto).                     *)
(*                                                                          *)
(* The on-disk vault and the working directory are one record, `disk'.     *)
(* Every vault operation is one action that runs the whole handler on the  *)
(* disk.  A handler takes a fault plan: the set of storage steps that      *)
(* return an I/O error during this run and, optionally, the step at which  *)
(* the process is killed.  A failing write either leaves its target alone  *)
(* or, in the torn-write steps, leaves it truncated.                       *)
(*                                                                          *)
(* Specifications: Spec (sequential use, no faults), SpecFaults (failing   *)
(* storage steps and kills between steps), SpecTorn (writes that stop      *)
(* inside os.WriteFile), SpecRace (two addFile processes interleaved       *)
(* statement by statement), SpecDamage (vault files changed between runs), *)
(* SpecIndex (password and recovery-key operations on a vault of three     *)
(* files), SpecSalt (the salt file replaced between runs), SpecPure (the   *)
(* functions of the crypto and storage packages applied to inputs: the     *)
(* recovery key strings, the cipher, the system calls of SecureDelete),    *)
(* SpecDrop (extractAll / dropAll on a vault of three files with failing   *)
(* steps, lost objects and damaged objects).                               *)
(*                                                                          *)
(* Abstractions: a sealed blob is the pair (key, plaintext) plus the damage *)
(* done to its bytes - opening it succeeds exactly with the sealing key on *)
(* undamaged bytes; the password-derived key is the                        *)
(* tagged pair (password, salt); object ids come from a counter standing   *)
(* for the hash of name and nanosecond clock; file times are left out;     *)
(* file names are sequences of one-character strings; extraction writes    *)
(* into the working directory, which is the vault root.                    *)
(***************************************************************************)
EXTENDS Integers, Sequences, FiniteSets, TLC

\* ---------------------------------------------------------------- bounds
MaxIds == 4        \* object ids the clock can hand out in one behaviour
MaxFaults == 1     \* operations run with a fault plan, or files damaged, in one behaviour

\* ---------------------------------------------------------------- inputs
\* an optional value (a file that may not exist) is a sequence of length 0 or 1
NoFile == <<>>
Some(v) == <<v>>
Get(o) == o[1]
None == "None"

\* what callers type in
Passwords == {"pw1", "pw2"}
RecoveryKeys == {"rk1", "rk2"}

\* the password the vault is created with, and what the random source hands
\* to Initialize (the values are interchangeable: one of each stands for all)
InitPasswords == {"pw1"}
MasterKeys == {"mk1"}
FreshRecoveryKeys == {"rk1"}
Salts == {"salt1"}

\* plaintext file contents (byte sequences): an empty and a non-empty file
Contents == {<<>>, <<7>>}

\* file names in the directory, and the queries tried against the index
FileNames == {<<"a">>, <<"a", "b">>, <<"A", "B">>}
Queries == FileNames \cup {<<>>, <<"A">>, <<"b">>, <<"A", "b">>, <<"b", "a">>}

ObjectIDs == 1..MaxIds

\* ------------------------------------------------------------- variables
VARIABLES
    disk,      \* the directory: vault marker, salt, key files, meta, objects, plaintext files
    nextId,    \* the next object id GenerateObjectID returns
    lastOp,    \* the last operation invoked and what it returned
    creds,     \* password given to / recovery key returned by the successful Initialize
    added,     \* name -> content of the successful adds since the last remove/drop/clear
    faults,    \* number of operations that ran with a fault plan
    before,    \* history: the directory as the running operation found it
    procs      \* the two concurrent addFile processes: position and local variables

vars == <<disk, nextId, lastOp, creds, added, faults, before, procs>>

\* ------------------------------------------------------------ strings
lowerChar(c) == IF c = "A" THEN "a" ELSE IF c = "B" THEN "b" ELSE c

ToLower(s) == [i \in 1..Len(s) |-> lowerChar(s[i])]

Contains(s, sub) ==
    \E i \in 0..(Len(s) - Len(sub)) : SubSeq(s, i + 1, i + Len(sub)) = sub

EqualFold(s, t) == ToLower(s) = ToLower(t)

\* ------------------------------------------------------------ crypto
DeriveKey(password, salt) == <<"argon2id", password, salt>>

\* the number of bytes of a salt file: GenerateSalt makes saltLength bytes;
\* "salt1[:31]" is salt1 without its last byte, "salt1+" salt1 and one byte
\* more, "salt1^" salt1 with a byte changed
saltLength == 32

SaltLen(salt) ==
    CASE salt = "" -> 0
      [] salt = "salt1[:31]" -> saltLength - 1
      [] salt = "salt1+" -> saltLength + 1
      [] OTHER -> saltLength

\* variant: a salt of any length is taken
deriveKeyFails_Never(salt) == FALSE

\* the one error of DeriveKey
deriveKeyFails(salt) == SaltLen(salt) # saltLength

\* a sealed blob is nonce, ciphertext and tag; `cut' and `flipped' record what
\* happened to its bytes on disk since: cut = <<n>> when only the first n
\* bytes are left, flipped when a byte was changed
nonceLength == 12

\* variant: every blob is sealed under one fixed key
Encrypt_FixedKey(plaintext, key) ==
    [key |-> "k0", pt |-> plaintext, cut |-> <<>>, flipped |-> FALSE]

Encrypt(plaintext, key) ==
    [key |-> key, pt |-> plaintext, cut |-> <<>>, flipped |-> FALSE]

\* variant: a blob whose bytes were changed is reported as corrupted data
Decrypt_TellsDamage(blob, key) ==
    IF (blob.cut # <<>> /\ blob.cut[1] < nonceLength) \/ blob.flipped
    THEN [err |-> "ErrCorruptedData", pt |-> None]
    ELSE IF blob.cut # <<>> \/ blob.key # key
         THEN [err |-> "ErrInvalidPassword", pt |-> None]
         ELSE [err |-> None, pt |-> blob.pt]

Decrypt(blob, key) ==
    IF blob.cut # <<>> /\ blob.cut[1] < nonceLength
    THEN [err |-> "ErrCorruptedData", pt |-> None]
    ELSE IF blob.cut # <<>> \/ blob.flipped \/ blob.key # key
         THEN [err |-> "ErrInvalidPassword", pt |-> None]
         ELSE [err |-> None, pt |-> blob.pt]

\* variant: the wrapping key is derived from the salt alone
EncryptMasterKey_SaltOnly(masterKey, password, salt) ==
    Encrypt(masterKey, DeriveKey(salt, salt))

EncryptMasterKey(masterKey, password, salt) ==
    Encrypt(masterKey, DeriveKey(password, salt))

\* variant: the wrapped key opens without authentication
DecryptMasterKey_NoAuth(blob, password, salt) == [err |-> None, pt |-> blob.pt]

DecryptMasterKey(blob, password, salt) ==
    IF deriveKeyFails(salt) THEN [err |-> "ErrInvalidSaltLength", pt |-> None]
    ELSE Decrypt(blob, DeriveKey(password, salt))

\* variant: the recovery wrapping seals the recovery key itself
EncryptMasterKeyWithRecoveryKey_WrapsRecoveryKey(masterKey, recoveryKey) ==
    Encrypt(recoveryKey, recoveryKey)

EncryptMasterKeyWithRecoveryKey(masterKey, recoveryKey) ==
    Encrypt(masterKey, recoveryKey)

DecryptMasterKeyWithRecoveryKey(blob, recoveryKey) ==
    Decrypt(blob, recoveryKey)

\* ------------------------------------------------------------ fault plans
\* a point is <<step, n>>: the n-th time the handler reaches that step.
\* A step "writeMeta" / "writeObject" that fails or is killed has not touched
\* its target (os.WriteFile could not open it); the steps "writeMetaBody" /
\* "writeObjectBody" fail or are killed after os.WriteFile has truncated the
\* target, when `kept' bytes of the new blob have reached it.
NoFault == [crash |-> <<>>, fail |-> {}, kept |-> 0]

Fails(ft, step, n) == <<step, n>> \in ft.fail
Crashes(ft, step, n) == ft.crash = <<step, n>>

\* the key buffers of the process: what the buffer allocated for the master
\* key and the one allocated for the password-derived key hold
NoKeys == [masterKey |-> NoFile, derivedKey |-> NoFile]

\* result of a handler run: the disk it leaves, the error kind (None, or
\* "crash" when the process was killed), the returned name / count / list /
\* key, the plaintext files it wrote, the number of object ids it drew, and the
\* key buffers as the handler leaves them when it returns
Ok(d) ==
    [disk |-> d, err |-> None, name |-> <<>>, count |-> 0, list |-> <<>>,
     key |-> None, out |-> {}, ids |-> 0, mem |-> NoKeys]

Err(d, err) == [Ok(d) EXCEPT !.err = err]

\* ------------------------------------------------------------ metadata
\* variant: the records are written last first
Marshal_Reversed(meta) ==
    <<"json", meta.version,
      [i \in 1..Len(meta.files) |-> meta.files[Len(meta.files) + 1 - i]]>>

\* json.Marshal / json.Unmarshal of storage.VaultMetadata
Marshal(meta) == <<"json", meta.version, meta.files>>
Unmarshal(doc) == [version |-> doc[2], files |-> doc[3]]

\* variant: the record keeps the first object id instead of its own
FileMetadata_FirstId(id, name, data) == [id |-> 1, name |-> name, size |-> Len(data)]

FileMetadata(id, name, data) == [id |-> id, name |-> name, size |-> Len(data)]

readMetadata(d, key) ==
    IF d.meta = NoFile THEN [err |-> "ErrVaultNotFound", meta |-> None]
    ELSE LET p == Decrypt(Get(d.meta), key) IN
         IF p.err # None THEN [err |-> p.err, meta |-> None]
         ELSE [err |-> None, meta |-> Unmarshal(p.pt)]

\* the blob writeMetadata hands to storage.WriteMetadata
sealMetadata(key, meta) == Encrypt(Marshal(meta), key)

unlockWithPassword(d, password) ==
    IF d.salt = NoFile THEN [err |-> "ErrVaultNotFound", key |-> None]
    ELSE IF d.masterKey = NoFile THEN [err |-> "ErrVaultNotFound", key |-> None]
    ELSE LET p == DecryptMasterKey(Get(d.masterKey), password, Get(d.salt)) IN
         [err |-> p.err, key |-> p.pt]

UnlockWithRecoveryKey(d, recoveryKey) ==
    IF d.recoveryKey = NoFile THEN [err |-> "ErrVaultNotFound", key |-> None]
    ELSE LET p == DecryptMasterKeyWithRecoveryKey(Get(d.recoveryKey), recoveryKey) IN
         [err |-> p.err, key |-> p.pt]

\* ------------------------------------------------------------ storage
\* the file os.WriteFile leaves when it stops after n bytes of blob
Truncated(blob, n) == [blob EXCEPT !.cut = <<n>>]

\* byte order of the characters, as os.ReadDir sorts names
charCode(c) ==
    IF c = "A" THEN 65 ELSE IF c = "B" THEN 66 ELSE IF c = "a" THEN 97 ELSE 98

RECURSIVE nameLess(_, _)
nameLess(s, t) ==
    IF Len(t) = 0 THEN FALSE
    ELSE IF Len(s) = 0 THEN TRUE
    ELSE IF charCode(Head(s)) # charCode(Head(t))
         THEN charCode(Head(s)) < charCode(Head(t))
         ELSE nameLess(Tail(s), Tail(t))

RECURSIVE sortNames(_)
sortNames(S) ==
    IF S = {} THEN <<>>
    ELSE LET m == CHOOSE x \in S : \A y \in S \ {x} : nameLess(x, y)
         IN <<m>> \o sortNames(S \ {m})

\* regular, non-hidden files of the directory, in directory order
ListDirectoryFiles(d) == sortNames({n \in DOMAIN d.files : d.files[n] # NoFile})

VaultExists(d) == d.vaultDir

WriteSalt(d, salt) == [d EXCEPT !.salt = Some(salt)]
WriteMasterKey(d, blob) == [d EXCEPT !.masterKey = Some(blob)]
WriteRecoveryKey(d, blob) == [d EXCEPT !.recoveryKey = Some(blob)]
WriteMetadata(d, blob) == [d EXCEPT !.meta = Some(blob)]
WriteObject(d, id, blob) == [d EXCEPT !.objects[id] = Some(blob)]
\* variant: deleting one object empties the objects directory
DeleteObject_Every(d, id) == [d EXCEPT !.objects = [i \in ObjectIDs |-> NoFile]]

\* variant: deleting an object also deletes the recovery key file
DeleteObject_AndRecoveryKey(d, id) ==
    [d EXCEPT !.objects[id] = NoFile, !.recoveryKey = NoFile]

DeleteObject(d, id) == [d EXCEPT !.objects[id] = NoFile]
\* variant: writing a plaintext file also removes the metadata blob
WritePlaintextFile_DropsMeta(d, name, data) ==
    [d EXCEPT !.files[name] = Some(data), !.meta = NoFile]

WritePlaintextFile(d, name, data) == [d EXCEPT !.files[name] = Some(data)]

\* what SecureDelete writes over the bytes of a file
overwrite(data) == [i \in 1..Len(data) |-> 0]

\* SecureDelete of the n-th original: stat/open may fail (file untouched),
\* the final unlink may fail (file overwritten but still there)
SecureDelete(d, name, ft, n) ==
    IF d.files[name] = NoFile \/ Fails(ft, "sdOpen", n) THEN d
    ELSE IF Fails(ft, "sdRemove", n)
         THEN [d EXCEPT !.files[name] = Some(overwrite(Get(@)))]
         ELSE [d EXCEPT !.files[name] = NoFile]

\* ------------------------------------------------------------ fuzzy matching
\* least position in 1..n that satisfies P, 0 if none does
firstAt(P(_), n) ==
    IF \E i \in 1..n : P(i)
    THEN CHOOSE i \in 1..n : P(i) /\ \A j \in 1..(i - 1) : ~P(j)
    ELSE 0

\* variant: one pass, by case-insensitive substring
findFileByName_SubstringOnly(files, query) ==
    firstAt(LAMBDA i : Contains(ToLower(files[i].name), ToLower(query)), Len(files))

\* position of the record findFileByName returns, 0 for nil
findFileByName(files, query) ==
    LET lowerQuery == ToLower(query)
        n == Len(files)
        exact(i) == files[i].name = query
        fold(i) == ToLower(files[i].name) = lowerQuery
        sub(i) == Contains(ToLower(files[i].name), lowerQuery)
    IN  IF firstAt(exact, n) # 0 THEN firstAt(exact, n)
        ELSE IF firstAt(fold, n) # 0 THEN firstAt(fold, n)
        ELSE firstAt(sub, n)

matchesFileName(filename, query) ==
    EqualFold(filename, query) \/ Contains(ToLower(filename), ToLower(query))

\* ------------------------------------------------------------ handlers
\* The key buffers a handler leaves behind.  unlockWithPassword derives the key
\* into a fresh buffer (crypto.DecryptMasterKey) and, when the wrapped key opens,
\* gets the master key in another; no handler writes to either buffer again.
unlockBuffers(d, password) ==
    IF d.salt = NoFile \/ d.masterKey = NoFile THEN NoKeys
    ELSE IF deriveKeyFails(Get(d.salt)) THEN NoKeys
    ELSE LET u == unlockWithPassword(d, password) IN
         [derivedKey |-> Some(DeriveKey(password, Get(d.salt))),
          masterKey |-> IF u.err = None THEN Some(u.key) ELSE NoFile]

recoveryBuffers(d, recoveryKey) ==
    LET u == UnlockWithRecoveryKey(d, recoveryKey) IN
    [derivedKey |-> NoFile, masterKey |-> IF u.err = None THEN Some(u.key) ELSE NoFile]

\* Initialize generates the master key once storage.InitializeVault has
\* succeeded and derives the password key when it wraps the master key
initBuffers(d, password, masterKey, salt, ft) ==
    IF VaultExists(d) \/ Fails(ft, "mkdirVault", 1) \/ Fails(ft, "mkdirObjects", 1)
    THEN NoKeys
    ELSE [masterKey |-> Some(masterKey),
          derivedKey |-> IF Fails(ft, "writeSalt", 1) THEN NoFile
                         ELSE Some(DeriveKey(password, salt))]

Holding(mem, r) == [r EXCEPT !.mem = mem]

\* variant: no name is taken for a duplicate
fileAlreadyExists_Never(files, name) == FALSE

\* variant: the duplicate check compares with the lower-cased name
fileAlreadyExists_Lowered(files, name) ==
    \E i \in 1..Len(files) : files[i].name = ToLower(name)

\* the duplicate check of addFileInternal: a record with the identical name
fileAlreadyExists(files, name) == \E i \in 1..Len(files) : files[i].name = name

\* variant: the metadata blob is written first, the object second
addFileInternal_MetaFirst(d, name, masterKey, id, ft, n) ==
    IF d.files[name] = NoFile THEN Err(d, "StorageFailure")
    ELSE LET data == Get(d.files[name])
             m == readMetadata(d, masterKey)
         IN
         IF Fails(ft, "readMeta", n) THEN Err(d, "StorageFailure")
         ELSE IF m.err # None THEN Err(d, m.err)
         ELSE IF fileAlreadyExists(m.meta.files, name) THEN Err(d, "ErrFileAlreadyExists")
         ELSE LET meta2 == [m.meta EXCEPT !.files = Append(@, FileMetadata(id, name, data))]
                  d1 == WriteMetadata(d, sealMetadata(masterKey, meta2))
              IN
              IF Crashes(ft, "writeObject", n) THEN [Err(d, "crash") EXCEPT !.ids = 1]
              ELSE IF Fails(ft, "writeObject", n)
                   THEN [Err(d, "StorageFailure") EXCEPT !.ids = 1]
              ELSE IF Crashes(ft, "writeMeta", n) THEN [Err(d1, "crash") EXCEPT !.ids = 1]
              ELSE IF Fails(ft, "writeMeta", n)
                   THEN [Err(d1, "StorageFailure") EXCEPT !.ids = 1]
              ELSE [Ok(WriteObject(d1, id, Encrypt(data, masterKey))) EXCEPT !.ids = 1]

\* addFileInternal for the n-th file of the run; `id' is what GenerateObjectID returns
addFileInternal(d, name, masterKey, id, ft, n) ==
    IF d.files[name] = NoFile THEN Err(d, "StorageFailure")
    ELSE LET data == Get(d.files[name])
             m == readMetadata(d, masterKey)
         IN
         IF Fails(ft, "readMeta", n) THEN Err(d, "StorageFailure")
         ELSE IF m.err # None THEN Err(d, m.err)
         ELSE IF fileAlreadyExists(m.meta.files, name) THEN Err(d, "ErrFileAlreadyExists")
         ELSE LET encryptedData == Encrypt(data, masterKey)
                  d1 == WriteObject(d, id, encryptedData)
                  meta2 == [m.meta EXCEPT !.files = Append(@, FileMetadata(id, name, data))]
                  dObj == WriteObject(d, id, Truncated(encryptedData, ft.kept))
                  dMeta == WriteMetadata(d1, Truncated(sealMetadata(masterKey, meta2), ft.kept))
              IN
              IF Crashes(ft, "writeObject", n) THEN [Err(d, "crash") EXCEPT !.ids = 1]
              ELSE IF ~d.objectsDir \/ Fails(ft, "writeObject", n)
                   THEN [Err(d, "StorageFailure") EXCEPT !.ids = 1]
              ELSE IF Crashes(ft, "writeObjectBody", n)
                   THEN [Err(dObj, "crash") EXCEPT !.ids = 1]
              ELSE IF Fails(ft, "writeObjectBody", n)
                   THEN [Err(dObj, "StorageFailure") EXCEPT !.ids = 1]
              ELSE IF Crashes(ft, "writeMeta", n) THEN [Err(d1, "crash") EXCEPT !.ids = 1]
              ELSE IF Crashes(ft, "writeMetaBody", n)
                   THEN [Err(dMeta, "crash") EXCEPT !.ids = 1]
              ELSE IF Fails(ft, "writeMeta", n) \/ Fails(ft, "writeMetaBody", n)
                   THEN LET d2 == IF Fails(ft, "writeMetaBody", n) THEN dMeta ELSE d1 IN
                        [Err(IF Fails(ft, "deleteObject", n) THEN d2 ELSE DeleteObject(d2, id),
                             "StorageFailure") EXCEPT !.ids = 1]
              ELSE [Ok(WriteMetadata(d1, sealMetadata(masterKey, meta2))) EXCEPT !.ids = 1]

\* variant: the original is deleted whatever addFileInternal returned
RunAddFile_DeletesAnyway(d, password, name, id, ft) ==
    Holding(unlockBuffers(d, password),
    LET u == unlockWithPassword(d, password) IN
    IF u.err # None THEN Err(d, u.err)
    ELSE LET r == addFileInternal(d, name, u.key, id, ft, 1) IN
         [r EXCEPT !.disk = SecureDelete(r.disk, name, ft, 1)])

RunAddFile(d, password, name, id, ft) ==
    Holding(unlockBuffers(d, password),
    LET u == unlockWithPassword(d, password) IN
    IF u.err # None THEN Err(d, u.err)
    ELSE LET r == addFileInternal(d, name, u.key, id, ft, 1) IN
         IF r.err # None THEN r
         ELSE IF Crashes(ft, "secureDelete", 1) THEN [r EXCEPT !.err = "crash"]
         ELSE [r EXCEPT !.disk = SecureDelete(r.disk, name, ft, 1)])

RunListFiles(d, password) ==
    Holding(unlockBuffers(d, password),
    LET u == unlockWithPassword(d, password) IN
    IF u.err # None THEN Err(d, u.err)
    ELSE LET m == readMetadata(d, u.key) IN
         IF m.err # None THEN Err(d, m.err)
         ELSE [Ok(d) EXCEPT !.list = m.meta.files])

RunExtractFile(d, password, fileName, ft) ==
    Holding(unlockBuffers(d, password),
    LET u == unlockWithPassword(d, password) IN
    IF u.err # None THEN Err(d, u.err)
    ELSE LET m == readMetadata(d, u.key) IN
    IF Fails(ft, "readMeta", 1) THEN Err(d, "StorageFailure")
    ELSE IF m.err # None THEN Err(d, m.err)
    ELSE LET i == findFileByName(m.meta.files, fileName) IN
    IF i = 0 THEN Err(d, "ErrFileNotFound")
    ELSE LET fileMeta == m.meta.files[i]
             encryptedData == d.objects[fileMeta.id]
         IN
         IF encryptedData = NoFile THEN Err(d, "ErrFileNotInVault")
         ELSE LET p == Decrypt(Get(encryptedData), u.key) IN
              IF p.err # None THEN Err(d, p.err)
              ELSE IF Fails(ft, "writePlain", 1) THEN Err(d, "StorageFailure")
              ELSE [Ok(WritePlaintextFile(d, fileMeta.name, p.pt))
                       EXCEPT !.name = fileMeta.name, !.out = {fileMeta.name}])

\* the loop of ExtractAllFiles from record k on; `out' are the files written so far
RECURSIVE extractLoop(_, _, _, _, _, _)
extractLoop(d, files, k, key, out, ft) ==
    LET sofar == [Ok(d) EXCEPT !.count = k - 1, !.out = out] IN
    IF k > Len(files) THEN sofar
    ELSE LET encryptedData == d.objects[files[k].id] IN
         IF encryptedData = NoFile THEN [sofar EXCEPT !.err = "ErrFileNotInVault"]
         ELSE LET p == Decrypt(Get(encryptedData), key) IN
              IF p.err # None THEN [sofar EXCEPT !.err = p.err]
              ELSE IF Fails(ft, "writePlain", k) THEN [sofar EXCEPT !.err = "StorageFailure"]
              ELSE extractLoop(WritePlaintextFile(d, files[k].name, p.pt), files, k + 1,
                               key, out \cup {files[k].name}, ft)

RunExtractAllFiles(d, password, ft) ==
    Holding(unlockBuffers(d, password),
    LET u == unlockWithPassword(d, password) IN
    IF u.err # None THEN Err(d, u.err)
    ELSE LET m == readMetadata(d, u.key) IN
         IF m.err # None THEN Err(d, m.err)
         ELSE extractLoop(d, m.meta.files, 1, u.key, {}, ft))

RunRemoveFile(d, password, fileName, ft) ==
    Holding(unlockBuffers(d, password),
    LET u == unlockWithPassword(d, password) IN
    IF u.err # None THEN Err(d, u.err)
    ELSE LET m == readMetadata(d, u.key) IN
    IF Fails(ft, "readMeta", 1) THEN Err(d, "StorageFailure")
    ELSE IF m.err # None THEN Err(d, m.err)
    ELSE LET files == m.meta.files
             matched == {i \in 1..Len(files) : matchesFileName(files[i].name, fileName)}
             found == matched # {}
             \* the loop overwrites objectID at every match: the last one stays
             objectID == files[CHOOSE i \in matched : \A j \in matched : j <= i].id
             newFiles == SelectSeq(files, LAMBDA f : ~matchesFileName(f.name, fileName))
         IN
         IF ~found THEN Err(d, "ErrFileNotFound")
         ELSE IF Crashes(ft, "deleteObject", 1) THEN Err(d, "crash")
         ELSE IF d.objects[objectID] = NoFile THEN Err(d, "ErrFileNotInVault")
         ELSE IF Fails(ft, "deleteObject", 1) THEN Err(d, "StorageFailure")
         ELSE LET d1 == DeleteObject(d, objectID)
                  newMeta == sealMetadata(u.key, [m.meta EXCEPT !.files = newFiles])
                  dMeta == WriteMetadata(d1, Truncated(newMeta, ft.kept))
              IN
              IF Crashes(ft, "writeMeta", 1) THEN Err(d1, "crash")
              ELSE IF Fails(ft, "writeMeta", 1) THEN Err(d1, "StorageFailure")
              ELSE IF Crashes(ft, "writeMetaBody", 1) THEN Err(dMeta, "crash")
              ELSE IF Fails(ft, "writeMetaBody", 1) THEN Err(dMeta, "StorageFailure")
              ELSE Ok(WriteMetadata(d1, newMeta)))

\* variant: the delete loop stops after the first record
clearLoop_OnlyFirst(d, files, k, ft) ==
    Ok(IF Len(files) = 0 THEN d ELSE DeleteObject(d, files[1].id))

\* the delete loop of ClearVault from record k on
RECURSIVE clearLoop(_, _, _, _)
clearLoop(d, files, k, ft) ==
    IF k > Len(files) THEN Ok(d)
    ELSE IF Crashes(ft, "deleteObject", k) THEN Err(d, "crash")
    ELSE IF d.objects[files[k].id] = NoFile THEN Err(d, "ErrFileNotInVault")
    ELSE IF Fails(ft, "deleteObject", k) THEN Err(d, "StorageFailure")
    ELSE clearLoop(DeleteObject(d, files[k].id), files, k + 1, ft)

RunClearVault(d, password, ft) ==
    Holding(unlockBuffers(d, password),
    LET u == unlockWithPassword(d, password) IN
    IF u.err # None THEN Err(d, u.err)
    ELSE LET m == readMetadata(d, u.key) IN
    IF Fails(ft, "readMeta", 1) THEN Err(d, "StorageFailure")
    ELSE IF m.err # None THEN Err(d, m.err)
    ELSE LET r == clearLoop(d, m.meta.files, 1, ft)
             newMeta == sealMetadata(u.key, [m.meta EXCEPT !.files = <<>>])
             dMeta == WriteMetadata(r.disk, Truncated(newMeta, ft.kept))
         IN
         IF r.err # None THEN r
         ELSE IF Crashes(ft, "writeMeta", 1) THEN Err(r.disk, "crash")
         ELSE IF Fails(ft, "writeMeta", 1) THEN Err(r.disk, "StorageFailure")
         ELSE IF Crashes(ft, "writeMetaBody", 1) THEN Err(dMeta, "crash")
         ELSE IF Fails(ft, "writeMetaBody", 1) THEN Err(dMeta, "StorageFailure")
         ELSE Ok(WriteMetadata(r.disk, newMeta)))

RunDropFile(d, password, fileName, ft) ==
    Holding(unlockBuffers(d, password),
    LET e == RunExtractFile(d, password, fileName, ft) IN
    IF e.err # None THEN [e EXCEPT !.name = <<>>]
    ELSE LET r == RunRemoveFile(e.disk, password, e.name, ft) IN
         IF r.err # None THEN [r EXCEPT !.out = e.out]
         ELSE [r EXCEPT !.name = e.name, !.out = e.out])

\* variant: the vault is cleared whatever the extraction returned
RunDropAllFiles_ClearsAnyway(d, password, ft) ==
    Holding(unlockBuffers(d, password),
    LET e == RunExtractAllFiles(d, password, ft)
        r == RunClearVault(e.disk, password, ft)
    IN  [r EXCEPT !.count = e.count, !.out = e.out])

RunDropAllFiles(d, password, ft) ==
    Holding(unlockBuffers(d, password),
    LET e == RunExtractAllFiles(d, password, ft) IN
    IF e.err # None THEN [e EXCEPT !.count = 0]
    ELSE LET r == RunClearVault(e.disk, password, ft) IN
         [r EXCEPT !.count = e.count, !.out = e.out])

\* variant: the loop stops after the first file
encryptAll_FirstOnly(d, names, k, masterKey, id, used, ft) ==
    IF Len(names) = 0 THEN Ok(d)
    ELSE addFileInternal(d, names[1], masterKey, id, ft, 1)

\* the two loops of Initialize over filesToEncrypt, from file k on
RECURSIVE encryptAll(_, _, _, _, _, _, _)
encryptAll(d, names, k, masterKey, id, used, ft) ==
    IF k > Len(names) THEN [Ok(d) EXCEPT !.ids = used]
    ELSE LET r == addFileInternal(d, names[k], masterKey, id + used, ft, k) IN
         IF r.err # None THEN [r EXCEPT !.ids = used + r.ids]
         ELSE encryptAll(r.disk, names, k + 1, masterKey, id, used + r.ids, ft)

\* variant: only the first original is deleted
deleteAll_OnlyFirst(d, names, k, ft) ==
    IF Len(names) = 0 THEN d ELSE SecureDelete(d, names[1], ft, 1)

RECURSIVE deleteAll(_, _, _, _)
deleteAll(d, names, k, ft) ==
    IF k > Len(names) THEN d
    ELSE deleteAll(SecureDelete(d, names[k], ft, k), names, k + 1, ft)

RunInitialize(d, password, masterKey, recoveryKey, salt, id, ft) ==
    Holding(initBuffers(d, password, masterKey, salt, ft),
    LET filesToEncrypt == ListDirectoryFiles(d)
        d1 == [d EXCEPT !.vaultDir = TRUE]
        d2 == [d1 EXCEPT !.objectsDir = TRUE]
        d3 == WriteSalt(d2, salt)
        d4 == WriteMasterKey(d3, EncryptMasterKey(masterKey, password, salt))
        d5 == WriteRecoveryKey(d4, EncryptMasterKeyWithRecoveryKey(masterKey, recoveryKey))
        d6 == WriteMetadata(d5, sealMetadata(masterKey, [version |-> 1, files |-> <<>>]))
    IN
    IF VaultExists(d) THEN Err(d, "ErrVaultExists")
    ELSE IF Fails(ft, "mkdirVault", 1) THEN Err(d, "StorageFailure")
    ELSE IF Fails(ft, "mkdirObjects", 1) THEN Err(d1, "StorageFailure")
    ELSE IF Fails(ft, "writeSalt", 1) THEN Err(d2, "StorageFailure")
    ELSE IF Fails(ft, "writeMasterKey", 1) THEN Err(d3, "StorageFailure")
    ELSE IF Fails(ft, "writeRecoveryKey", 1) THEN Err(d4, "StorageFailure")
    ELSE IF Fails(ft, "writeMeta", 0) THEN Err(d5, "StorageFailure")
    ELSE IF Fails(ft, "writeMetaBody", 0)
         THEN Err(WriteMetadata(d5, Truncated(Get(d6.meta), ft.kept)), "StorageFailure")
    ELSE LET r == encryptAll(d6, filesToEncrypt, 1, masterKey, id, 0, ft) IN
         IF r.err # None THEN r
         ELSE [r EXCEPT !.disk = deleteAll(r.disk, filesToEncrypt, 1, ft),
                        !.key = recoveryKey])

RunUnlockWithRecoveryKey(d, recoveryKey) ==
    Holding(recoveryBuffers(d, recoveryKey),
    LET u == UnlockWithRecoveryKey(d, recoveryKey) IN
    [Err(d, u.err) EXCEPT !.key = u.key])

\* ------------------------------------------------------------ fault plans per handler
FailPlan(S) == [crash |-> <<>>, fail |-> S, kept |-> 0]
CrashPlan(p) == [crash |-> p, fail |-> {}, kept |-> 0]
FailOne(steps, ns) == {FailPlan({<<s, n>>}) : s \in steps, n \in ns}
FileOrdinals == 1..Cardinality(FileNames)

AddPlans ==
    FailOne({"readMeta", "writeObject", "writeMeta", "sdOpen", "sdRemove"}, {1})
    \cup {FailPlan({<<"writeMeta", 1>>, <<"deleteObject", 1>>}),
          CrashPlan(<<"writeMeta", 1>>), CrashPlan(<<"secureDelete", 1>>)}
ExtractPlans == FailOne({"readMeta", "writePlain"}, {1})
ExtractAllPlans == FailOne({"writePlain"}, FileOrdinals)
RemovePlans ==
    FailOne({"readMeta", "deleteObject", "writeMeta"}, {1}) \cup {CrashPlan(<<"writeMeta", 1>>)}
ClearPlans ==
    FailOne({"deleteObject"}, FileOrdinals) \cup FailOne({"readMeta", "writeMeta"}, {1})
    \cup {CrashPlan(<<"deleteObject", k>>) : k \in FileOrdinals}
    \cup {CrashPlan(<<"writeMeta", 1>>)}
InitPlans ==
    FailOne({"mkdirVault", "mkdirObjects", "writeSalt", "writeMasterKey", "writeRecoveryKey"}, {1})
    \cup FailOne({"writeMeta"}, {0})
    \cup FailOne({"writeObject", "writeMeta", "sdOpen", "sdRemove"}, FileOrdinals)

\* a fault plan is injected only where it changes the run, and at most
\* MaxFaults times in a behaviour
Injected(ft, r, r0) == ft = NoFault \/ (faults < MaxFaults /\ r # r0)

\* ------------------------------------------------------------ state machine
Report(op, password, arg, ft, r) ==
    [op |-> op, pw |-> password, arg |-> arg, ft |-> ft, err |-> r.err,
     name |-> r.name, count |-> r.count, list |-> r.list, key |-> r.key, out |-> r.out,
     mem |-> r.mem]

\* no process is running
Idle == Report("none", None, <<>>, NoFault, Ok(0))

NoneAdded == [n \in FileNames |-> NoFile]

\* a process that has not started: no key, no metadata read, no object id
Procs == {1, 2}
NotStarted ==
    [pc |-> "idle", name |-> <<>>, key |-> None, data |-> <<>>,
     meta |-> [version |-> 0, files |-> <<>>], id |-> 0, err |-> None]

\* a directory of plaintext files without a vault, after vault.New
Directories == [FileNames -> {NoFile} \cup {Some(c) : c \in Contents}]

New(files) ==
    /\ disk = [vaultDir |-> FALSE, objectsDir |-> FALSE, salt |-> NoFile,
               masterKey |-> NoFile, recoveryKey |-> NoFile, meta |-> NoFile,
               objects |-> [id \in ObjectIDs |-> NoFile], files |-> files]
    /\ nextId = 1
    /\ lastOp = Idle
    /\ creds = NoFile
    /\ added = NoneAdded
    /\ faults = 0
    /\ before = disk
    /\ procs = [p \in Procs |-> NotStarted]

Init == \E files \in Directories : New(files)

\* what every action does with the result r of its handler: one process runs
\* one operation (main.go), so the next operation starts after it has exited
Finish(op, password, arg, ft, r, r0) ==
    /\ lastOp.op = "none"
    /\ Injected(ft, r, r0)
    /\ disk' = r.disk
    /\ nextId' = nextId + r.ids
    /\ lastOp' = Report(op, password, arg, ft, r)
    /\ faults' = IF ft = NoFault THEN faults ELSE faults + 1
    /\ before' = disk
    /\ UNCHANGED procs

Initialize(password, masterKey, recoveryKey, salt, ft) ==
    LET r == RunInitialize(disk, password, masterKey, recoveryKey, salt, nextId, ft)
        r0 == RunInitialize(disk, password, masterKey, recoveryKey, salt, nextId, NoFault)
    IN  /\ lastOp.op = "none"
        /\ nextId + Len(ListDirectoryFiles(disk)) <= MaxIds + 1
        /\ Finish("initialize", password, <<>>, ft, r, r0)
        /\ creds' = IF r.err = None THEN Some([pw |-> password, rk |-> recoveryKey]) ELSE creds
        /\ UNCHANGED added

UnlockRecovery(recoveryKey) ==
    LET r == RunUnlockWithRecoveryKey(disk, recoveryKey) IN
        /\ Finish("unlockWithRecoveryKey", recoveryKey, <<>>, NoFault, r, r)
        /\ UNCHANGED <<creds, added>>

ListFiles(password) ==
    LET r == RunListFiles(disk, password) IN
        /\ Finish("listFiles", password, <<>>, NoFault, r, r)
        /\ UNCHANGED <<creds, added>>

AddFile(password, name, ft) ==
    LET r == RunAddFile(disk, password, name, nextId, ft)
        r0 == RunAddFile(disk, password, name, nextId, NoFault)
    IN  /\ lastOp.op = "none"
        /\ nextId <= MaxIds
        /\ Finish("addFile", password, name, ft, r, r0)
        /\ added' = IF r.err = None THEN [added EXCEPT ![name] = disk.files[name]] ELSE added
        /\ UNCHANGED creds

ExtractFile(password, fileName, ft) ==
    LET r == RunExtractFile(disk, password, fileName, ft)
        r0 == RunExtractFile(disk, password, fileName, NoFault)
    IN  /\ Finish("extractFile", password, fileName, ft, r, r0)
        /\ UNCHANGED <<creds, added>>

ExtractAllFiles(password, ft) ==
    LET r == RunExtractAllFiles(disk, password, ft)
        r0 == RunExtractAllFiles(disk, password, NoFault)
    IN  /\ Finish("extractAll", password, <<>>, ft, r, r0)
        /\ UNCHANGED <<creds, added>>

RemoveFile(password, fileName, ft) ==
    LET r == RunRemoveFile(disk, password, fileName, ft)
        r0 == RunRemoveFile(disk, password, fileName, NoFault)
    IN  /\ Finish("removeFile", password, fileName, ft, r, r0)
        /\ added' = NoneAdded
        /\ UNCHANGED creds

DropFile(password, fileName, ft) ==
    LET r == RunDropFile(disk, password, fileName, ft)
        r0 == RunDropFile(disk, password, fileName, NoFault)
    IN  /\ Finish("dropFile", password, fileName, ft, r, r0)
        /\ added' = NoneAdded
        /\ UNCHANGED creds

DropAllFiles(password, ft) ==
    LET r == RunDropAllFiles(disk, password, ft)
        r0 == RunDropAllFiles(disk, password, NoFault)
    IN  /\ Finish("dropAll", password, <<>>, ft, r, r0)
        /\ added' = NoneAdded
        /\ UNCHANGED creds

ClearVault(password, ft) ==
    LET r == RunClearVault(disk, password, ft)
        r0 == RunClearVault(disk, password, NoFault)
    IN  /\ Finish("clearVault", password, <<>>, ft, r, r0)
        /\ added' = NoneAdded
        /\ UNCHANGED creds

\* the process exits (main.go returns)
Exit ==
    /\ lastOp.op # "none"
    /\ lastOp' = Idle
    /\ before' = disk
    /\ UNCHANGED <<disk, nextId, creds, added, faults, procs>>

\* sequential use of the vault, every storage step succeeding
Next ==
    \/ Exit
    \/ \E pw \in Passwords, mk \in MasterKeys, rk \in FreshRecoveryKeys, s \in Salts :
          Initialize(pw, mk, rk, s, NoFault)
    \/ \E rk \in RecoveryKeys : UnlockRecovery(rk)
    \/ \E pw \in Passwords : ListFiles(pw)
    \/ \E pw \in Passwords, n \in FileNames : AddFile(pw, n, NoFault)
    \/ \E pw \in Passwords, q \in Queries : ExtractFile(pw, q, NoFault)
    \/ \E pw \in Passwords : ExtractAllFiles(pw, NoFault)
    \/ \E pw \in Passwords, q \in Queries : RemoveFile(pw, q, NoFault)
    \/ \E pw \in Passwords, q \in Queries : DropFile(pw, q, NoFault)
    \/ \E pw \in Passwords : DropAllFiles(pw, NoFault)
    \/ \E pw \in Passwords : ClearVault(pw, NoFault)

Spec == Init /\ [][Next]_vars

\* sequential use of the vault with failing storage steps and kills, on the
\* directories that hold at least two files, with the same bytes under every
\* name of one length
ContentOf(n) == IF Len(n) = 1 THEN <<>> ELSE <<7>>

InitFaults ==
    \E files \in Directories :
        /\ \A n \in FileNames : files[n] # NoFile => Get(files[n]) = ContentOf(n)
        /\ Cardinality({n \in FileNames : files[n] # NoFile}) >= 2
        /\ New(files)

\* a directory of two files
InitTwoFiles ==
    New([n \in FileNames |-> IF Len(n) = 2 /\ n[1] = "A" THEN NoFile ELSE Some(ContentOf(n))])

FaultQueries == {<<"a">>, <<"a", "b">>, <<>>}

NextFaults ==
    \/ Exit
    \/ \E pw \in InitPasswords, mk \in MasterKeys, rk \in FreshRecoveryKeys, s \in Salts,
          ft \in {NoFault} \cup InitPlans : Initialize(pw, mk, rk, s, ft)
    \/ \E rk \in RecoveryKeys : UnlockRecovery(rk)
    \/ \E pw \in Passwords : ListFiles(pw)
    \/ \E pw \in InitPasswords, n \in FileNames, ft \in {NoFault} \cup AddPlans :
          AddFile(pw, n, ft)
    \/ \E pw \in InitPasswords, q \in FaultQueries, ft \in {NoFault} \cup ExtractPlans :
          ExtractFile(pw, q, ft)
    \/ \E pw \in InitPasswords, q \in FaultQueries, ft \in {NoFault} \cup RemovePlans :
          RemoveFile(pw, q, ft)
    \/ \E pw \in InitPasswords, q \in FaultQueries,
          ft \in {NoFault} \cup ExtractPlans \cup RemovePlans : DropFile(pw, q, ft)
    \/ \E pw \in InitPasswords, ft \in {NoFault} \cup ClearPlans : ClearVault(pw, ft)

SpecFaults == InitFaults /\ [][NextFaults]_vars

\* ------------------------------------------------------------ properties
\* the index sealed in the metadata blob of d
IndexOf(d) == Unmarshal(Get(d.meta).pt).files

\* the vault directory of d: everything but the plaintext files beside it
VaultOf(d) == [d EXCEPT !.files = NoneAdded]

\* the last operation was given the password of the successful Initialize
RightPassword == creds # NoFile /\ lastOp.pw = Get(creds).pw

\* C1: once addFile(pw, n) has succeeded on content c, extractFile(pw, n) with
\* the exact name returns n and writes a file with exactly the bytes c, also
\* after further list, extract and add operations in between.
C1_RoundTrip ==
    (/\ lastOp.op = "extractFile"
     /\ RightPassword
     /\ lastOp.arg \in FileNames
     /\ added[lastOp.arg] # NoFile)
    => /\ lastOp.err = None
       /\ lastOp.name = lastOp.arg
       /\ lastOp.out = {lastOp.arg}
       /\ disk.files[lastOp.arg] = added[lastOp.arg]

\* a non-empty added file is extracted into a place where it no longer was,
\* from an index that holds other records too
C1_Witness ==
    /\ lastOp.op = "extractFile"
    /\ RightPassword
    /\ lastOp.arg \in FileNames
    /\ added[lastOp.arg] = Some(<<7>>)
    /\ lastOp.err = None
    /\ before.files[lastOp.arg] = NoFile
    /\ disk.files[lastOp.arg] = Some(<<7>>)
    /\ Len(IndexOf(disk)) >= 1

\* C2: after initialize(pw) returned rk, in every state that completed
\* operations reach, unlocking with pw and unlocking with rk both succeed
\* with the same master key, which opens the current metadata blob; the two
\* wrapped-key files wrap the same value.
C2_DualUnlock ==
    creds # NoFile =>
        LET u == unlockWithPassword(disk, Get(creds).pw)
            v == UnlockWithRecoveryKey(disk, Get(creds).rk)
        IN  /\ u.err = None
            /\ v.err = None
            /\ u.key = v.key
            /\ readMetadata(disk, u.key).err = None
            /\ Get(disk.masterKey).pt = Get(disk.recoveryKey).pt
            /\ (lastOp.op = "unlockWithRecoveryKey" /\ lastOp.pw = Get(creds).rk)
                  => (lastOp.err = None /\ lastOp.key = u.key)

\* the recovery key unlocks a vault that has been worked on since Initialize
C2_Witness ==
    /\ creds # NoFile
    /\ lastOp.op = "unlockWithRecoveryKey"
    /\ lastOp.pw = Get(creds).rk
    /\ lastOp.key \in MasterKeys
    /\ Len(IndexOf(disk)) >= 1
    /\ \E n \in FileNames : added[n] # NoFile

\* C3: a password-taking operation called with a password other than the one
\* given to initialize fails with InvalidPassword, changes no file of the vault
\* and no plaintext file (no output written, no original deleted).
PasswordOps ==
    {"listFiles", "addFile", "extractFile", "extractAll", "removeFile", "dropFile",
     "clearVault"}

C3_WrongPassword ==
    (creds # NoFile /\ lastOp.op \in PasswordOps /\ lastOp.pw # Get(creds).pw)
    => /\ lastOp.err = "ErrInvalidPassword"
       /\ disk = before
       /\ lastOp.out = {}

\* addFile with the wrong password on an existing original, vault not empty
C3_Witness ==
    /\ creds # NoFile
    /\ lastOp.op = "addFile"
    /\ lastOp.pw # Get(creds).pw
    /\ lastOp.err = "ErrInvalidPassword"
    /\ disk.files[lastOp.arg] # NoFile
    /\ Len(IndexOf(disk)) >= 1

\* files without its i-th record
removeAt(files, i) == SubSeq(files, 1, i - 1) \o SubSeq(files, i + 1, Len(files))

\* C4: a successful removeFile(q) removes from the index exactly the one
\* record the fuzzy priority order selects and deletes exactly that record's
\* object; every other record and every other object stays.
C4_RemoveExactlyOne ==
    (lastOp.op = "removeFile" /\ lastOp.err = None) =>
        LET files == IndexOf(before)
            i == findFileByName(files, lastOp.arg)
        IN  /\ i # 0
            /\ IndexOf(disk) = removeAt(files, i)
            /\ disk.objects = [before.objects EXCEPT ![files[i].id] = NoFile]

\* C5: after a successful dropFile(q) the only record removed is the one
\* whose content was written out, the only object deleted is that record's,
\* and every other listed file is still listed and still extractable.
C5_DropLosesNothing ==
    (lastOp.op = "dropFile" /\ lastOp.err = None) =>
        LET files == IndexOf(before)
            i == findFileByName(files, lastOp.arg)
        IN  /\ i # 0
            /\ lastOp.name = files[i].name
            /\ IndexOf(disk) = removeAt(files, i)
            /\ disk.objects = [before.objects EXCEPT ![files[i].id] = NoFile]
            /\ \A k \in 1..Len(files) :
                  k # i => RunExtractFile(disk, lastOp.pw, files[k].name, NoFault).err = None

C7_DuplicateAdd ==
    (/\ lastOp.op = "addFile"
     /\ RightPassword
     /\ before.files[lastOp.arg] # NoFile
     /\ \E i \in 1..Len(IndexOf(before)) : IndexOf(before)[i].name = lastOp.arg)
    => /\ lastOp.err = "ErrFileAlreadyExists"
       /\ disk = before
       /\ disk.files[lastOp.arg] # NoFile

\* a duplicate add of a name written in upper case
C7_Witness ==
    /\ lastOp.op = "addFile"
    /\ RightPassword
    /\ lastOp.err = "ErrFileAlreadyExists"
    /\ lastOp.arg = <<"A", "B">>
    /\ disk.files[lastOp.arg] # NoFile
    /\ \E i \in 1..Len(IndexOf(disk)) : IndexOf(disk)[i].name = lastOp.arg

\* C8: after a successful clearVault, listFiles returns the empty list, every
\* object id listed before the call is absent from the object store, and the
\* salt and both wrapped-key files are unchanged: the vault still unlocks
\* with the same password and recovery key.
C8_ClearVault ==
    (lastOp.op = "clearVault" /\ lastOp.err = None) =>
        /\ RunListFiles(disk, lastOp.pw).err = None
        /\ RunListFiles(disk, lastOp.pw).list = <<>>
        /\ \A i \in 1..Len(IndexOf(before)) : disk.objects[IndexOf(before)[i].id] = NoFile
        /\ disk.salt = before.salt
        /\ disk.masterKey = before.masterKey
        /\ disk.recoveryKey = before.recoveryKey
        /\ unlockWithPassword(disk, Get(creds).pw).err = None
        /\ UnlockWithRecoveryKey(disk, Get(creds).rk).err = None
        /\ unlockWithPassword(disk, Get(creds).pw).key =
              unlockWithPassword(before, Get(creds).pw).key

\* a vault with two or more records is cleared
C8_Witness ==
    /\ lastOp.op = "clearVault"
    /\ lastOp.err = None
    /\ Len(IndexOf(before)) >= 2
    /\ IndexOf(disk) = <<>>

\* C9: when initialize, addFile, removeFile, dropFile or clearVault returns an
\* error because a storage step failed, the vault on disk is what it was
\* before the call, or that plus exactly one extra object no record refers to.
MutatingOps == {"initialize", "addFile", "removeFile", "dropFile", "clearVault"}

C9_FailureAtomicity ==
    (lastOp.op \in MutatingOps /\ lastOp.err = "StorageFailure") =>
        \/ VaultOf(disk) = VaultOf(before)
        \/ \E id \in ObjectIDs :
              /\ before.objects[id] = NoFile
              /\ disk.objects[id] # NoFile
              /\ VaultOf(disk) = [VaultOf(before) EXCEPT !.objects[id] = disk.objects[id]]
              /\ disk.meta # NoFile =>
                    \A k \in 1..Len(IndexOf(disk)) : IndexOf(disk)[k].id # id

\* C10: when addFile is killed after the object write and before the metadata
\* write, the metadata blob is the one from before the add (it opens under the
\* master key and lists the prior records), every file that could be
\* extracted still can, with the same bytes, the new object is an orphan and
\* the original plaintext file is still there, unmodified.
C10_CrashBetweenSteps ==
    (lastOp.op = "addFile" /\ lastOp.ft.crash = <<"writeMeta", 1>>) =>
        LET mk == unlockWithPassword(before, lastOp.pw).key
            files == IndexOf(before)
        IN  /\ lastOp.err = "crash"
            /\ disk.meta = before.meta
            /\ readMetadata(disk, mk).err = None
            /\ readMetadata(disk, mk).meta.files = files
            /\ \A k \in 1..Len(files) :
                  LET e0 == RunExtractFile(before, lastOp.pw, files[k].name, NoFault)
                      e1 == RunExtractFile(disk, lastOp.pw, files[k].name, NoFault)
                  IN  e0.err = None =>
                         /\ e1.err = None
                         /\ e1.name = e0.name
                         /\ e1.disk.files[e1.name] = e0.disk.files[e0.name]
            /\ \E id \in ObjectIDs :
                  /\ before.objects[id] = NoFile
                  /\ disk.objects[id] = Some(Encrypt(Get(before.files[lastOp.arg]), mk))
                  /\ \A k \in 1..Len(files) : files[k].id # id
                  /\ \A o \in ObjectIDs \ {id} : disk.objects[o] = before.objects[o]
            /\ disk.files = before.files
            /\ disk.files[lastOp.arg] # NoFile

\* addFile of a non-empty file is killed before the metadata write while the
\* index lists another file
C10_Witness ==
    /\ lastOp.op = "addFile"
    /\ lastOp.ft.crash = <<"writeMeta", 1>>
    /\ lastOp.err = "crash"
    /\ disk.files[lastOp.arg] = Some(<<7>>)
    /\ Len(IndexOf(disk)) >= 1

\* ------------------------------------------------------------ torn writes
\* sequential use of the vault where os.WriteFile of the metadata blob or of
\* an object stops (an I/O error, or the process is killed) after it has
\* truncated the target and written the first `kept' bytes
TornLengths == {0, nonceLength}

TearFail(step, n, k) == [crash |-> <<>>, fail |-> {<<step, n>>}, kept |-> k]
TearCrash(step, n, k) == [crash |-> <<step, n>>, fail |-> {}, kept |-> k]

TornAddPlans ==
    {TearFail(s, 1, k) : s \in {"writeObjectBody", "writeMetaBody"}, k \in TornLengths}
    \cup {TearCrash(s, 1, k) : s \in {"writeObjectBody", "writeMetaBody"}, k \in TornLengths}
    \cup {[crash |-> <<>>, fail |-> {<<"writeMetaBody", 1>>, <<"deleteObject", 1>>},
           kept |-> k] : k \in TornLengths}
    \cup {FailPlan({<<"writeMeta", 1>>}),
          FailPlan({<<"writeMeta", 1>>, <<"deleteObject", 1>>})}
TornMetaPlans ==
    {TearFail("writeMetaBody", 1, k) : k \in TornLengths}
    \cup {TearCrash("writeMetaBody", 1, k) : k \in TornLengths}
TornInitPlans ==
    {TearFail("writeMetaBody", 0, k) : k \in TornLengths}
    \cup {TearFail(s, n, k) : s \in {"writeObjectBody", "writeMetaBody"},
                              n \in FileOrdinals, k \in TornLengths}

NextTorn ==
    \/ Exit
    \/ \E pw \in InitPasswords, mk \in MasterKeys, rk \in FreshRecoveryKeys, s \in Salts,
          ft \in {NoFault} \cup TornInitPlans : Initialize(pw, mk, rk, s, ft)
    \/ \E pw \in InitPasswords : ListFiles(pw)
    \/ \E pw \in InitPasswords, n \in FileNames, ft \in {NoFault} \cup TornAddPlans :
          AddFile(pw, n, ft)
    \/ \E pw \in InitPasswords, q \in FaultQueries : ExtractFile(pw, q, NoFault)
    \/ \E pw \in InitPasswords, q \in FaultQueries, ft \in {NoFault} \cup TornMetaPlans :
          RemoveFile(pw, q, ft)
    \/ \E pw \in InitPasswords, ft \in {NoFault} \cup TornMetaPlans : ClearVault(pw, ft)

SpecTorn == InitTwoFiles /\ [][NextTorn]_vars

\* C11: at every point where a write of the metadata blob or of an object can
\* be interrupted, the target file is the complete previous blob (absent, for
\* a new object) or the complete new blob, never a truncated file that fails
\* to open under the master key.
C11_AtomicWrites ==
    lastOp.err = "crash" =>
        LET mk == unlockWithPassword(before, lastOp.pw).key IN
        /\ \/ disk.meta = before.meta
           \/ /\ disk.meta # NoFile
              /\ Get(disk.meta).cut = <<>>
              /\ readMetadata(disk, mk).err = None
        /\ \A id \in ObjectIDs :
              \/ disk.objects[id] = before.objects[id]
              \/ /\ disk.objects[id] # NoFile
                 /\ Get(disk.objects[id]).cut = <<>>
                 /\ Decrypt(Get(disk.objects[id]), mk).err = None

\* C13: when the object write of addFile succeeds and persisting the metadata
\* fails, addFile returns an error, has deleted the object it wrote, leaves
\* the index as it was (no new record, no orphan) and the original in place.
C13_AddCompensation ==
    (/\ lastOp.op = "addFile"
     /\ \E s \in {"writeMeta", "writeMetaBody"} : <<s, 1>> \in lastOp.ft.fail)
    => LET mk == unlockWithPassword(before, lastOp.pw).key IN
       /\ lastOp.err # None
       /\ disk.objects = before.objects
       /\ readMetadata(disk, mk).err = None
       /\ readMetadata(disk, mk).meta = readMetadata(before, mk).meta
       /\ disk.files = before.files
       /\ disk.files[lastOp.arg] # NoFile

\* ------------------------------------------------------------ concurrent addFile
\* two processes run AddFile on one vault, each a step at a time: unlock and
\* read the file; read the metadata and check for a duplicate; write the
\* object; append the record to the metadata it read and write it; delete
\* the original.  The vault was initialized on a directory and the user has
\* put files into it since.
\* variant: the index is read again right before the record is appended
writeUpdatedMetadata_Reread(d, key, meta, fileMeta) ==
    WriteMetadata(d, sealMetadata(key,
        [readMetadata(d, key).meta EXCEPT !.files = Append(@, fileMeta)]))

\* meta.Files = append(meta.Files, fileMeta); v.writeMetadata(masterKey, meta)
writeUpdatedMetadata(d, key, meta, fileMeta) ==
    WriteMetadata(d, sealMetadata(key, [meta EXCEPT !.files = Append(@, fileMeta)]))

Step(p, q) ==
    /\ procs' = [procs EXCEPT ![p] = q]
    /\ UNCHANGED <<lastOp, creds, added, faults, before>>

Returned(p, err) == [procs[p] EXCEPT !.pc = "done", !.err = err]

RaceUnlock(p, password, name) ==
    LET u == unlockWithPassword(disk, password) IN
    /\ procs[p].pc = "idle"
    /\ Step(p, IF u.err # None THEN Returned(p, u.err)
               ELSE IF disk.files[name] = NoFile THEN Returned(p, "StorageFailure")
               ELSE [procs[p] EXCEPT !.pc = "opened", !.name = name, !.key = u.key,
                                     !.data = Get(disk.files[name])])
    /\ UNCHANGED <<disk, nextId>>

RaceReadMetadata(p) ==
    LET m == readMetadata(disk, procs[p].key) IN
    /\ procs[p].pc = "opened"
    /\ Step(p, IF m.err # None THEN Returned(p, m.err)
               ELSE IF fileAlreadyExists(m.meta.files, procs[p].name)
                    THEN Returned(p, "ErrFileAlreadyExists")
               ELSE [procs[p] EXCEPT !.pc = "read", !.meta = m.meta])
    /\ UNCHANGED <<disk, nextId>>

RaceWriteObject(p) ==
    /\ procs[p].pc = "read"
    /\ nextId <= MaxIds
    /\ disk' = WriteObject(disk, nextId, Encrypt(procs[p].data, procs[p].key))
    /\ nextId' = nextId + 1
    /\ Step(p, [procs[p] EXCEPT !.pc = "stored", !.id = nextId])

RaceWriteMetadata(p) ==
    /\ procs[p].pc = "stored"
    /\ disk' = writeUpdatedMetadata(disk, procs[p].key, procs[p].meta,
                                    FileMetadata(procs[p].id, procs[p].name, procs[p].data))
    /\ Step(p, [procs[p] EXCEPT !.pc = "indexed"])
    /\ UNCHANGED nextId

RaceSecureDelete(p) ==
    /\ procs[p].pc = "indexed"
    /\ disk' = SecureDelete(disk, procs[p].name, NoFault, 1)
    /\ Step(p, Returned(p, None))
    /\ UNCHANGED nextId

InitRace ==
    \E files0, files1 \in Directories :
        LET d0 == [vaultDir |-> FALSE, objectsDir |-> FALSE, salt |-> NoFile,
                   masterKey |-> NoFile, recoveryKey |-> NoFile, meta |-> NoFile,
                   objects |-> [id \in ObjectIDs |-> NoFile], files |-> files0]
            r == RunInitialize(d0, "pw1", "mk1", "rk1", "salt1", 1, NoFault)
        IN  /\ \A n \in FileNames :
                  /\ files0[n] # NoFile => Get(files0[n]) = ContentOf(n)
                  /\ files1[n] # NoFile => Get(files1[n]) = ContentOf(n)
            /\ Cardinality({n \in FileNames : files0[n] # NoFile}) <= 1
            /\ disk = [r.disk EXCEPT !.files = files1]
            /\ nextId = 1 + r.ids
            /\ lastOp = Idle
            /\ creds = Some([pw |-> "pw1", rk |-> "rk1"])
            /\ added = NoneAdded
            /\ faults = 0
            /\ before = disk
            /\ procs = [p \in Procs |-> NotStarted]

NextRace ==
    \/ \E p \in Procs, pw \in InitPasswords, n \in FileNames : RaceUnlock(p, pw, n)
    \/ \E p \in Procs : RaceReadMetadata(p)
    \/ \E p \in Procs : RaceWriteObject(p)
    \/ \E p \in Procs : RaceWriteMetadata(p)
    \/ \E p \in Procs : RaceSecureDelete(p)

SpecRace == InitRace /\ [][NextRace]_vars

\* both addFile calls have returned success, for different names, each after
\* reading the same metadata (neither had written it when the other read it)
BothReadBeforeEitherWrote ==
    /\ \A p \in Procs : procs[p].pc = "done" /\ procs[p].err = None
    /\ procs[1].name # procs[2].name
    /\ procs[1].meta = procs[2].meta

Opened(d, known) ==
    known
    \cup (IF d.masterKey # NoFile
             /\ Get(d.masterKey).key[2] \in known /\ Get(d.masterKey).key[3] \in known
          THEN {Get(d.masterKey).pt} ELSE {})
    \cup (IF d.recoveryKey # NoFile /\ Get(d.recoveryKey).key \in known
          THEN {Get(d.recoveryKey).pt} ELSE {})

StoredInTheClear(d) == IF d.salt # NoFile THEN {Get(d.salt)} ELSE {}

Readable(d) == Opened(d, Opened(d, Opened(d, StoredInTheClear(d))))

Secrets == MasterKeys \cup RecoveryKeys \cup Passwords

\* C14: in every reachable state no file of the vault directory gives up the
\* master key, the recovery key, the password or the password-derived key to a
\* reader without credentials; master.key is the master key sealed under the
\* key derived from a password and the stored salt, recovery.key is the master
\* key sealed under the recovery key, and these are the only two blobs whose
\* plaintext is a key: the metadata blob seals the JSON index and every object
\* seals file bytes under the master key.  No blob has the recovery key as its
\* plaintext.
C14_NoPlaintextSecret ==
    /\ Readable(disk) \cap Secrets = {}
    /\ disk.masterKey # NoFile =>
          /\ Get(disk.masterKey).pt \in MasterKeys
          /\ Get(disk.masterKey).key[1] = "argon2id"
          /\ Get(disk.masterKey).key[2] \in Passwords
          /\ disk.salt = Some(Get(disk.masterKey).key[3])
    /\ disk.recoveryKey # NoFile =>
          /\ Get(disk.recoveryKey).pt \in MasterKeys
          /\ Get(disk.recoveryKey).key \in RecoveryKeys
    /\ disk.meta # NoFile =>
          /\ Get(disk.meta).pt[1] = "json"
          /\ Get(disk.meta).key \in MasterKeys
    /\ \A id \in ObjectIDs : disk.objects[id] # NoFile =>
          /\ Get(disk.objects[id]).pt \in Seq(0..255)
          /\ Get(disk.objects[id]).key \in MasterKeys

\* a vault with both wrapped keys, an index and an object, after a successful add
C14_Witness ==
    /\ lastOp.op = "addFile" /\ lastOp.err = None
    /\ disk.salt # NoFile /\ disk.masterKey # NoFile /\ disk.recoveryKey # NoFile
    /\ disk.meta # NoFile
    /\ \E id \in ObjectIDs : disk.objects[id] # NoFile

\* ------------------------------------------------------------ keys in memory
\* C15: when an operation has returned (and the process has not been killed),
\* neither the master-key buffer nor the derived-key buffer of the process
\* holds key bytes any more: both were zeroed on the way out, on success and
\* on error.
C15_KeysZeroed ==
    (lastOp.op # "none" /\ lastOp.err # "crash") => lastOp.mem = NoKeys

\* ------------------------------------------------------------ damaged vault files
\* Between two runs of the program something else changes a sealed file of the
\* vault: a byte is changed, the file is cut to n bytes, or it is replaced by a
\* blob that was sealed under a key of another vault.
TamperKinds == {"flip", "cut", "rekey"}
SealedFiles == {"masterKey", "recoveryKey", "meta"}

ForeignKey(file, blob) ==
    IF file = "masterKey" THEN DeriveKey("pw0", blob.key[3])
    ELSE IF file = "recoveryKey" THEN "rk0"
    ELSE "mk0"

Tamper(blob, kind, n, foreign) ==
    IF kind = "flip" THEN [blob EXCEPT !.flipped = TRUE]
    ELSE IF kind = "cut" THEN Truncated(blob, n)
    ELSE [blob EXCEPT !.key = foreign]

Damaged(d) ==
    /\ lastOp.op = "none"
    /\ faults < MaxFaults
    /\ d # disk
    /\ disk' = d
    /\ before' = d
    /\ faults' = faults + 1
    /\ UNCHANGED <<nextId, lastOp, creds, added, procs>>

DamageFile(file, kind, n) ==
    /\ disk[file] # NoFile
    /\ Damaged([disk EXCEPT ![file] =
                   Some(Tamper(Get(@), kind, n, ForeignKey(file, Get(@))))])

DamageObject(id, kind, n) ==
    /\ disk.objects[id] # NoFile
    /\ Damaged([disk EXCEPT !.objects[id] =
                   Some(Tamper(Get(@), kind, n, ForeignKey("object", Get(@))))])

NextDamage ==
    \/ Exit
    \/ \E pw \in InitPasswords, mk \in MasterKeys, rk \in FreshRecoveryKeys, s \in Salts :
          Initialize(pw, mk, rk, s, NoFault)
    \/ \E rk \in RecoveryKeys : UnlockRecovery(rk)
    \/ \E pw \in Passwords : ListFiles(pw)
    \/ \E pw \in InitPasswords, n \in FileNames : AddFile(pw, n, NoFault)
    \/ \E pw \in InitPasswords, q \in FaultQueries : ExtractFile(pw, q, NoFault)
    \/ \E pw \in InitPasswords : ExtractAllFiles(pw, NoFault)
    \/ \E pw \in InitPasswords, q \in FaultQueries : RemoveFile(pw, q, NoFault)
    \/ \E pw \in InitPasswords : ClearVault(pw, NoFault)
    \/ \E f \in SealedFiles, k \in TamperKinds, n \in TornLengths : DamageFile(f, k, n)
    \/ \E id \in ObjectIDs, k \in TamperKinds, n \in TornLengths : DamageObject(id, k, n)

SpecDamage == InitTwoFiles /\ [][NextDamage]_vars

\* what is wrong with a blob, told from its bytes and the key it is opened with
Short(blob) == blob.cut # <<>> /\ blob.cut[1] < nonceLength
Modified(blob) == ~Short(blob) /\ (blob.flipped \/ blob.cut # <<>>)
Sound(blob, key) == ~Short(blob) /\ ~Modified(blob) /\ blob.key = key

\* the operation was refused as a wrong password is, and gave nothing out
Refused ==
    /\ lastOp.err = "ErrInvalidPassword"
    /\ lastOp.out = {} /\ lastOp.list = <<>> /\ lastOp.key = None /\ lastOp.name = <<>>
    /\ disk = before

\* the first blob the last operation opened that was not sound: "none" when it
\* never reached a blob or all were sound
FirstUnsound ==
    IF lastOp.op = "unlockWithRecoveryKey"
    THEN IF before.recoveryKey # NoFile /\ ~Sound(Get(before.recoveryKey), lastOp.pw)
         THEN "recoveryKey" ELSE "none"
    ELSE IF lastOp.op \notin PasswordOps \/ before.salt = NoFile \/ before.masterKey = NoFile
    THEN "none"
    ELSE LET wrapped == Get(before.masterKey)
             mk == wrapped.pt
         IN
         IF ~Sound(wrapped, DeriveKey(lastOp.pw, Get(before.salt))) THEN "masterKey"
         ELSE IF lastOp.op = "addFile" /\ before.files[lastOp.arg] = NoFile THEN "none"
         ELSE IF before.meta = NoFile THEN "none"
         ELSE IF ~Sound(Get(before.meta), mk) THEN "meta"
         ELSE LET files == IndexOf(before)
                  unsound(i) == /\ before.objects[files[i].id] # NoFile
                                /\ ~Sound(Get(before.objects[files[i].id]), mk)
                  i == findFileByName(files, lastOp.arg)
              IN
              IF lastOp.op = "extractFile" /\ i # 0 /\ unsound(i) THEN "object"
              ELSE IF /\ lastOp.op = "extractAll"
                      /\ \E k \in 1..Len(files) :
                            /\ unsound(k)
                            /\ \A j \in 1..(k - 1) : before.objects[files[j].id] # NoFile
                   THEN "object"
              ELSE "none"

\* the blob of before that FirstUnsound names, and the key it was opened with
UnsoundBlob ==
    LET files == IndexOf(before)
        mk == Get(before.masterKey).pt
        bad(i) == /\ before.objects[files[i].id] # NoFile
                  /\ ~Sound(Get(before.objects[files[i].id]), mk)
    IN
    CASE FirstUnsound = "recoveryKey" ->
             [blob |-> Get(before.recoveryKey), at |-> 0]
      [] FirstUnsound = "masterKey" ->
             [blob |-> Get(before.masterKey), at |-> 0]
      [] FirstUnsound = "meta" ->
             [blob |-> Get(before.meta), at |-> 0]
      [] FirstUnsound = "object" /\ lastOp.op = "extractFile" ->
             LET i == findFileByName(files, lastOp.arg) IN
             [blob |-> Get(before.objects[files[i].id]), at |-> i]
      [] FirstUnsound = "object" /\ lastOp.op = "extractAll" ->
             LET k == firstAt(bad, Len(files)) IN
             [blob |-> Get(before.objects[files[k].id]), at |-> k]

C17_ShortInput ==
    (FirstUnsound # "none" /\ Short(UnsoundBlob.blob)) => lastOp.err = "ErrInvalidPassword"

\* ------------------------------------------------------------ recovery-key failure
\* C18: unlock with a recovery key other than the one Initialize returned fails
\* with an error kind of its own, ErrInvalidRecoveryKey, which is not the
\* ErrInvalidPassword of password unlock, and leaves the disk as it was.
C18_RecoveryKeyFailureKind ==
    (/\ lastOp.op = "unlockWithRecoveryKey"
     /\ creds # NoFile
     /\ before.recoveryKey # NoFile
     /\ lastOp.pw # Get(creds).rk)
    => /\ lastOp.err = "ErrInvalidRecoveryKey"
       /\ lastOp.err # "ErrInvalidPassword"
       /\ disk = before

\* ------------------------------------------------------------ vault presence
\* C19: also after an initialize that failed half way, initialize fails with
\* ErrVaultExists exactly when the marker directory is there, an unlocking
\* operation fails with ErrVaultNotFound only when the marker directory is not
\* there, in no state would initialize report ErrVaultExists while an unlocking
\* operation reports ErrVaultNotFound, and an operation that returns either
\* error leaves the disk as it was.
C19_PresenceErrors ==
    /\ lastOp.op = "initialize" => (lastOp.err = "ErrVaultExists" <=> VaultExists(before))
    /\ (lastOp.op \in PasswordOps \cup {"unlockWithRecoveryKey"}
        /\ lastOp.err = "ErrVaultNotFound") => ~VaultExists(before)
    /\ lastOp.err \in {"ErrVaultExists", "ErrVaultNotFound"} => disk = before
    /\ \A pw \in InitPasswords, mk \in MasterKeys, rk \in FreshRecoveryKeys, s \in Salts :
          ~ /\ RunInitialize(disk, pw, mk, rk, s, nextId, NoFault).err = "ErrVaultExists"
            /\ \/ RunListFiles(disk, pw).err = "ErrVaultNotFound"
               \/ RunUnlockWithRecoveryKey(disk, rk).err = "ErrVaultNotFound"

RunListFilesWithMasterKey_Empty(d, masterKey) == Ok(d)

RunListFilesWithMasterKey(d, masterKey) ==
    LET m == readMetadata(d, masterKey) IN
    IF m.err # None THEN Err(d, m.err)
    ELSE [Ok(d) EXCEPT !.list = m.meta.files]

RunExtractFileWithMasterKey(d, masterKey, fileName) ==
    LET m == readMetadata(d, masterKey) IN
    IF m.err # None THEN Err(d, m.err)
    ELSE LET i == findFileByName(m.meta.files, fileName) IN
    IF i = 0 THEN Err(d, "ErrFileNotFound")
    ELSE LET fileMeta == m.meta.files[i]
             encryptedData == d.objects[fileMeta.id]
         IN
         IF encryptedData = NoFile THEN Err(d, "ErrFileNotInVault")
         ELSE LET p == Decrypt(Get(encryptedData), masterKey) IN
              IF p.err # None THEN Err(d, p.err)
              ELSE [Ok(WritePlaintextFile(d, fileMeta.name, p.pt))
                       EXCEPT !.name = fileMeta.name, !.out = {fileMeta.name}]

RunExtractAllFilesWithMasterKey(d, masterKey) ==
    LET m == readMetadata(d, masterKey) IN
    IF m.err # None THEN Err(d, m.err)
    ELSE extractLoop(d, m.meta.files, 1, masterKey, {}, NoFault)

\* a caller that unlocks with the recovery key and hands the master key on
RecoverListFiles(recoveryKey) ==
    LET u == RunUnlockWithRecoveryKey(disk, recoveryKey)
        r == IF u.err # None THEN [u EXCEPT !.key = None]
             ELSE Holding(u.mem, RunListFilesWithMasterKey(disk, u.key))
    IN  /\ Finish("recoverListFiles", recoveryKey, <<>>, NoFault, r, r)
        /\ UNCHANGED <<creds, added>>

RecoverExtractFile(recoveryKey, fileName) ==
    LET u == RunUnlockWithRecoveryKey(disk, recoveryKey)
        r == IF u.err # None THEN [u EXCEPT !.key = None]
             ELSE Holding(u.mem, RunExtractFileWithMasterKey(disk, u.key, fileName))
    IN  /\ Finish("recoverExtractFile", recoveryKey, fileName, NoFault, r, r)
        /\ UNCHANGED <<creds, added>>

RecoverExtractAll(recoveryKey) ==
    LET u == RunUnlockWithRecoveryKey(disk, recoveryKey)
        r == IF u.err # None THEN [u EXCEPT !.key = None]
             ELSE Holding(u.mem, RunExtractAllFilesWithMasterKey(disk, u.key))
    IN  /\ Finish("recoverExtractAll", recoveryKey, <<>>, NoFault, r, r)
        /\ UNCHANGED <<creds, added>>

\* sequential use of a vault made from a directory of three files, by
\* password and by recovery key, every storage step succeeding
IndexNames == {<<"a">>, <<"a", "b">>, <<"b">>}

InitIndex == New([n \in IndexNames |-> Some(ContentOf(n))])

NextIndex ==
    \/ Exit
    \/ \E pw \in InitPasswords, mk \in MasterKeys, rk \in FreshRecoveryKeys, s \in Salts :
          Initialize(pw, mk, rk, s, NoFault)
    \/ \E pw \in InitPasswords : ListFiles(pw)
    \/ \E pw \in InitPasswords, n \in IndexNames : AddFile(pw, n, NoFault)
    \/ \E pw \in InitPasswords, q \in IndexNames \cup {<<>>} : ExtractFile(pw, q, NoFault)
    \/ \E pw \in InitPasswords : ExtractAllFiles(pw, NoFault)
    \/ \E pw \in InitPasswords, q \in IndexNames \cup {<<>>} : RemoveFile(pw, q, NoFault)
    \/ \E pw \in InitPasswords, q \in IndexNames \cup {<<>>} : DropFile(pw, q, NoFault)
    \/ \E pw \in InitPasswords : DropAllFiles(pw, NoFault)
    \/ \E pw \in InitPasswords : ClearVault(pw, NoFault)
    \/ \E rk \in RecoveryKeys : RecoverListFiles(rk)
    \/ \E rk \in RecoveryKeys, q \in IndexNames \cup {<<>>} : RecoverExtractFile(rk, q)
    \/ \E rk \in RecoveryKeys : RecoverExtractAll(rk)

SpecIndex == InitIndex /\ [][NextIndex]_vars

\* C21: listFiles, extractFile and extractAll, by password or with the master
\* key, leave the salt, both wrapped keys, the metadata blob and every object as
\* they were; so a listFiles repeated right after a listFiles returns the same
\* records, and a file that was extracted is still listed and can be extracted
\* again.
C21_ReadOnly ==
    (lastOp.op \in {"listFiles", "extractFile", "extractAll", "recoverListFiles",
                    "recoverExtractFile", "recoverExtractAll"})
    => /\ VaultOf(disk) = VaultOf(before)
       /\ lastOp.op = "listFiles" =>
             /\ RunListFiles(disk, lastOp.pw).err = lastOp.err
             /\ RunListFiles(disk, lastOp.pw).list = lastOp.list
       /\ (lastOp.op = "extractFile" /\ lastOp.err = None) =>
             LET again == RunExtractFile(disk, lastOp.pw, lastOp.arg, NoFault)
                 list == RunListFiles(disk, lastOp.pw).list
             IN  /\ \E i \in 1..Len(list) : list[i].name = lastOp.name
                 /\ again.err = None /\ again.name = lastOp.name
                 /\ again.disk.files[lastOp.name] = disk.files[lastOp.name]

\* a file was extracted from a vault that lists two or more
C21_Witness ==
    /\ lastOp.op = "extractFile" /\ lastOp.err = None
    /\ Len(IndexOf(disk)) >= 2

\* C22: with the master key obtained from the recovery key, listing returns the
\* records, extracting resolves the file and writes the bytes, and both return
\* the errors, that ListFiles, ExtractFile and ExtractAllFiles return with the
\* correct password on the same vault.
C22_UnlockPathsAgree ==
    (creds # NoFile /\ lastOp.pw = Get(creds).rk) =>
        LET pw == Get(creds).pw IN
        /\ lastOp.op = "recoverListFiles" =>
              LET r == RunListFiles(before, pw) IN
              lastOp.err = r.err /\ lastOp.list = r.list /\ disk = r.disk
        /\ lastOp.op = "recoverExtractFile" =>
              LET r == RunExtractFile(before, pw, lastOp.arg, NoFault) IN
              /\ lastOp.err = r.err /\ lastOp.name = r.name /\ lastOp.out = r.out
              /\ disk = r.disk
        /\ lastOp.op = "recoverExtractAll" =>
              LET r == RunExtractAllFiles(before, pw, NoFault) IN
              /\ lastOp.err = r.err /\ lastOp.count = r.count /\ lastOp.out = r.out
              /\ disk = r.disk

\* a file was extracted by a fuzzy query with the master key from the recovery
\* key, out of a vault that lists two or more
C22_Witness ==
    /\ creds # NoFile /\ lastOp.pw = Get(creds).rk
    /\ lastOp.op = "recoverExtractFile" /\ lastOp.err = None
    /\ lastOp.name # lastOp.arg
    /\ Len(IndexOf(disk)) >= 2

\* C29: a successful addFile puts its record after all the records there
\* were; a successful removeFile or dropFile leaves the records it keeps in the
\* order they had; listFiles returns the records in the order of the index; so
\* the index is always in the order in which its records were added (object
\* ids are handed out in increasing order).
C29_InsertionOrder ==
    LET old == IndexOf(before)
        new == IndexOf(disk)
    IN
    /\ (lastOp.op = "addFile" /\ lastOp.err = None) =>
            /\ Len(new) = Len(old) + 1
            /\ SubSeq(new, 1, Len(old)) = old
            /\ new[Len(new)].name = lastOp.arg
    /\ (lastOp.op \in {"removeFile", "dropFile"} /\ lastOp.err = None) =>
            /\ Len(new) < Len(old)
            /\ new = SelectSeq(old, LAMBDA f : \E j \in 1..Len(new) : new[j] = f)
    /\ (lastOp.op = "listFiles" /\ lastOp.err = None) => lastOp.list = old
    /\ disk.meta # NoFile =>
            \A i, j \in 1..Len(new) : i < j => new[i].id < new[j].id

\* a file was added back after files that sort after it
C29_Witness ==
    /\ lastOp.op = "addFile" /\ lastOp.err = None
    /\ Len(IndexOf(disk)) = 2
    /\ IndexOf(disk)[1].name = <<"b">>
    /\ IndexOf(disk)[2].name = <<"a">>

\* C30: in a vault initialized with success and then used by one process
\* without crash or storage failure, every record of the index has its object
\* on disk and the object opens under the master key; extractAll with the
\* right password succeeds with as many files as there are records; and what
\* list, extract and drop operations return and write comes from records of
\* the index only, never from an object that has no record.
C30_ReferentialIntegrity ==
    (creds # NoFile /\ disk.meta # NoFile) =>
        LET masterKey == Get(disk.masterKey).pt
            files == IndexOf(disk)
            old == IndexOf(before)
            names == {old[i].name : i \in 1..Len(old)}
        IN
        /\ \A i \in 1..Len(files) :
              /\ disk.objects[files[i].id] # NoFile
              /\ Decrypt(Get(disk.objects[files[i].id]), masterKey).err = None
        /\ (lastOp.op = "extractAll" /\ RightPassword) =>
              lastOp.err = None /\ lastOp.count = Len(old)
        /\ lastOp.op \in {"listFiles", "recoverListFiles"} =>
              \A i \in 1..Len(lastOp.list) : lastOp.list[i] \in {old[j] : j \in 1..Len(old)}
        /\ lastOp.op \in {"extractFile", "extractAll", "dropFile", "dropAll",
                           "recoverExtractFile", "recoverExtractAll"} =>
              /\ lastOp.out \subseteq names
              /\ \A n \in lastOp.out :
                    \E i \in 1..Len(old) :
                        /\ old[i].name = n
                        /\ disk.files[n] = Some(Get(before.objects[old[i].id]).pt)

\* every record was extracted from a vault that also holds an object without
\* a record
C30_Witness ==
    /\ lastOp.op = "extractAll" /\ lastOp.err = None
    /\ lastOp.count = 2
    /\ \E id \in ObjectIDs :
          /\ disk.objects[id] # NoFile
          /\ \A i \in 1..Len(IndexOf(disk)) : IndexOf(disk)[i].id # id

\* ------------------------------------------------------------ damaged salt
DamagedSalts == {"", "salt1[:31]", "salt1+", "salt1^"}

\* the salt file is replaced by a damaged one
DamageSalt(salt) ==
    /\ disk.salt # NoFile
    /\ Damaged([disk EXCEPT !.salt = Some(salt)])

NextSalt ==
    \/ Exit
    \/ \E pw \in InitPasswords, mk \in MasterKeys, rk \in FreshRecoveryKeys, s \in Salts :
          Initialize(pw, mk, rk, s, NoFault)
    \/ \E pw \in Passwords : ListFiles(pw)
    \/ \E pw \in Passwords, n \in FileNames : AddFile(pw, n, NoFault)
    \/ \E pw \in Passwords, q \in FaultQueries : ExtractFile(pw, q, NoFault)
    \/ \E pw \in Passwords : ExtractAllFiles(pw, NoFault)
    \/ \E pw \in Passwords, q \in FaultQueries : RemoveFile(pw, q, NoFault)
    \/ \E pw \in Passwords, q \in FaultQueries : DropFile(pw, q, NoFault)
    \/ \E pw \in Passwords : DropAllFiles(pw, NoFault)
    \/ \E pw \in Passwords : ClearVault(pw, NoFault)
    \/ \E s \in DamagedSalts : DamageSalt(s)

SpecSalt == InitTwoFiles /\ [][NextSalt]_vars

\* C26: when the salt file is not exactly 32 bytes long, every operation that
\* unlocks with a password fails with ErrInvalidSaltLength, opens no blob and
\* changes nothing on disk; with a salt of 32 bytes no operation fails with
\* that error.
C26_SaltLength ==
    (/\ lastOp.op \in PasswordOps \cup {"dropAll"}
     /\ before.salt # NoFile /\ before.masterKey # NoFile) =>
        IF SaltLen(Get(before.salt)) # saltLength
        THEN /\ lastOp.err = "ErrInvalidSaltLength"
             /\ lastOp.mem = NoKeys
             /\ lastOp.out = {} /\ lastOp.list = <<>> /\ lastOp.key = None
             /\ disk = before
        ELSE lastOp.err # "ErrInvalidSaltLength"

C26_Witness ==
    /\ lastOp.op = "extractAll"
    /\ before.salt = Some("salt1[:31]")
    /\ lastOp.pw \in InitPasswords
    /\ lastOp.err = "ErrInvalidSaltLength"

\* ------------------------------------------------------------ recovery key strings
keyLength == 32

\* hex.EncodeToString: two lower-case digits for every byte
EncodeRecoveryKeyHex(recoveryKey) ==
    LET digits == <<"0", "1", "2", "3", "4", "5", "6", "7", "8", "9",
                    "a", "b", "c", "d", "e", "f">>
    IN  [i \in 1..(2 * Len(recoveryKey)) |->
            LET b == recoveryKey[(i + 1) \div 2] IN
            digits[(IF i % 2 = 1 THEN b \div 16 ELSE b % 16) + 1]]

\* hex.DecodeString, then the length check
DecodeRecoveryKeyHex(hexKey) ==
    LET value(c) ==
            CASE c = "0" -> 0 [] c = "1" -> 1 [] c = "2" -> 2 [] c = "3" -> 3
              [] c = "4" -> 4 [] c = "5" -> 5 [] c = "6" -> 6 [] c = "7" -> 7
              [] c = "8" -> 8 [] c = "9" -> 9
              [] c \in {"a", "A"} -> 10 [] c \in {"b", "B"} -> 11
              [] c \in {"c", "C"} -> 12 [] c \in {"d", "D"} -> 13
              [] c \in {"e", "E"} -> 14 [] c \in {"f", "F"} -> 15
              [] OTHER -> -1
        n == Len(hexKey) \div 2
    IN
    IF Len(hexKey) % 2 = 1 \/ \E i \in 1..Len(hexKey) : value(hexKey[i]) = -1
    THEN [err |-> "InvalidRecoveryKeyFormat", key |-> <<>>]
    ELSE IF n # keyLength THEN [err |-> "InvalidRecoveryKeyLength", key |-> <<>>]
    ELSE [err |-> None,
          key |-> [i \in 1..n |-> 16 * value(hexKey[2 * i - 1]) + value(hexKey[2 * i])]]

\* the loop of FormatRecoveryKeyForDisplay from position i (0-based) on
RECURSIVE formatFrom(_, _)
formatFrom(hexKey, i) ==
    IF i >= Len(hexKey) THEN <<>>
    ELSE LET end == IF i + 8 > Len(hexKey) THEN Len(hexKey) ELSE i + 8 IN
         (IF i > 0 THEN <<"-">> ELSE <<>>) \o SubSeq(hexKey, i + 1, end)
            \o formatFrom(hexKey, i + 8)

FormatRecoveryKeyForDisplay(recoveryKey) == formatFrom(EncodeRecoveryKeyHex(recoveryKey), 0)

\* byte strings the functions are applied to: every length around keyLength,
\* filled with one byte value or with a ramp
ByteStrings ==
    {[i \in 1..n |-> b] : n \in {0, 1, 4, keyLength - 1, keyLength, keyLength + 1},
                          b \in {0, 9, 171, 255}}
    \cup {[i \in 1..n |-> (37 * i) % 256] : n \in {4, keyLength, keyLength + 1}}

\* the functions of the crypto and storage packages applied to inputs
Applied(report) ==
    /\ lastOp.op = "none"
    /\ lastOp' = report

\* the key is shown, and the string shown is typed back
ShowRecoveryKey(recoveryKey) ==
    /\ Applied([op |-> "showRecoveryKey", key |-> recoveryKey,
                shown |-> FormatRecoveryKeyForDisplay(recoveryKey),
                back |-> DecodeRecoveryKeyHex(FormatRecoveryKeyForDisplay(recoveryKey))])
    /\ UNCHANGED <<disk, nextId, creds, added, faults, before, procs>>

\* the plain hex string of the key is decoded
DecodeHex(recoveryKey) ==
    /\ Applied([op |-> "decodeHex", key |-> recoveryKey,
                shown |-> EncodeRecoveryKeyHex(recoveryKey),
                back |-> DecodeRecoveryKeyHex(EncodeRecoveryKeyHex(recoveryKey))])
    /\ UNCHANGED <<disk, nextId, creds, added, faults, before, procs>>

\* ---- the system calls of a deletion
bufferSize == 4096

\* a plan of the failures met by one deletion: of the stat, of the open, of
\* the write of chunk number `write' (0: none), of the random source while
\* chunk k is filled (k \in rand), of the final unlink
WipePlans ==
    [stat : BOOLEAN, open : BOOLEAN, write : 0..3, rand : SUBSET (1..3), remove : BOOLEAN]

\* variant: the loop stops after one buffer
overwriteLoop_OneBuffer(size, k, plan) ==
    IF size <= 0 THEN [err |-> None, calls |-> <<>>]
    ELSE [err |-> None,
          calls |-> <<[call |-> "write", n |-> IF bufferSize > size THEN size ELSE bufferSize,
                       bytes |-> "random"]>>]

\* the overwriting loop of SecureDelete with `size' bytes to go, at chunk k
RECURSIVE overwriteLoop(_, _, _)
overwriteLoop(size, k, plan) ==
    IF size <= 0 THEN [err |-> None, calls |-> <<>>]
    ELSE LET n == IF bufferSize > size THEN size ELSE bufferSize
             w == [call |-> "write", n |-> n,
                   bytes |-> IF k \in plan.rand THEN "zero" ELSE "random"]
         IN  IF plan.write = k
             THEN [err |-> "WriteFailed", calls |-> <<[w EXCEPT !.call = "writeFailed"]>>]
             ELSE LET rest == overwriteLoop(size - n, k + 1, plan)
                  IN  [err |-> rest.err, calls |-> <<w>> \o rest.calls]

\* the calls SecureDelete makes on a file of `size' bytes, and what it returns
SecureDeleteCalls(size, plan) ==
    IF plan.stat THEN [err |-> "StatFailed", calls |-> <<>>]
    ELSE IF plan.open THEN [err |-> "OpenFailed", calls |-> <<>>]
    ELSE LET loop == overwriteLoop(size, 1, plan) IN
         IF loop.err # None THEN loop
         ELSE IF plan.remove
              THEN [err |-> "RemoveFailed", calls |-> Append(loop.calls, [call |-> "removeFailed"])]
              ELSE [err |-> None, calls |-> Append(loop.calls, [call |-> "remove"])]

\* the calls storage.DeleteObject makes on an object file
DeleteObjectCalls(size, fails) ==
    IF fails THEN [err |-> "DeleteFailed", calls |-> <<[call |-> "removeFailed"]>>]
    ELSE [err |-> None, calls |-> <<[call |-> "remove"]>>]

\* file sizes around the multiples of the buffer
FileSizes ==
    {0, 1, bufferSize - 1, bufferSize, bufferSize + 1, 2 * bufferSize,
     2 * bufferSize + 1, 3 * bufferSize}

Wipe(size, plan) ==
    /\ Applied([op |-> "secureDelete", size |-> size, plan |-> plan,
                res |-> SecureDeleteCalls(size, plan)])
    /\ UNCHANGED <<disk, nextId, creds, added, faults, before, procs>>

\* keys the vault seals under: random ones, and ones derived from a password
RandomKeys == MasterKeys \cup RecoveryKeys
DerivedKeys == {DeriveKey(p, s) : p \in Passwords, s \in Salts \cup {"salt2"}}

\* a buffer is sealed under k1 and the blob opened under k2
SealThenOpen(plaintext, k1, k2) ==
    /\ Applied([op |-> "sealThenOpen", pt |-> plaintext, k1 |-> k1, k2 |-> k2,
                opened |-> Decrypt(Encrypt(plaintext, k1), k2)])
    /\ UNCHANGED <<disk, nextId, creds, added, faults, before, procs>>

NextPure ==
    \/ Exit
    \/ \E size \in FileSizes, plan \in WipePlans : Wipe(size, plan)
    \/ \E p \in Contents, k1, k2 \in RandomKeys : SealThenOpen(p, k1, k2)
    \/ \E p \in Contents, k1, k2 \in DerivedKeys : SealThenOpen(p, k1, k2)
    \/ \E rk \in ByteStrings : ShowRecoveryKey(rk)
    \/ \E rk \in ByteStrings : DecodeHex(rk)

SpecPure == InitTwoFiles /\ [][NextPure]_vars

\* C23: the string shown for a 32-byte recovery key - its hex digits in 8
\* groups of 8 joined by dashes - is accepted by DecodeRecoveryKeyHex and
\* decodes to exactly that key; a string that decodes to another length is
\* rejected.
C23_TranscriptionRoundTrip ==
    lastOp.op \in {"showRecoveryKey", "decodeHex"} =>
        IF Len(lastOp.key) = keyLength
        THEN lastOp.back.err = None /\ lastOp.back.key = lastOp.key
        ELSE lastOp.back.err # None

RECURSIVE written(_, _)
written(calls, k) ==
    IF k = 0 THEN 0
    ELSE written(calls, k - 1) + (IF calls[k].call = "write" THEN calls[k].n ELSE 0)

\* C28: on a file of s bytes SecureDelete writes chunks of at most 4096
\* bytes, zeros where the random source failed; it unlinks only after exactly
\* s bytes were written; when the stat, the open or a write fails it returns
\* an error without unlinking; with no failure it writes exactly s bytes,
\* unlinks and returns no error.
C28_SecureDelete ==
    lastOp.op = "secureDelete" =>
        LET calls == lastOp.res.calls
            plan == lastOp.plan
            chunks == (lastOp.size + bufferSize - 1) \div bufferSize
            unlinks == {k \in 1..Len(calls) : calls[k].call \in {"remove", "removeFailed"}}
        IN  /\ \A k \in 1..Len(calls) :
                    calls[k].call \in {"write", "writeFailed"} =>
                        /\ calls[k].n \in 1..bufferSize
                        /\ calls[k].bytes = (IF k \in plan.rand THEN "zero" ELSE "random")
            /\ \A k \in unlinks : k = Len(calls) /\ written(calls, k) = lastOp.size
            /\ (plan.stat \/ plan.open \/ plan.write \in 1..chunks) =>
                    lastOp.res.err # None /\ unlinks = {}
            /\ ~(plan.stat \/ plan.open \/ plan.write \in 1..chunks) =>
                    /\ written(calls, Len(calls)) = lastOp.size
                    /\ unlinks # {}
                    /\ (lastOp.res.err = None) = ~plan.remove

C28_Witness ==
    /\ lastOp.op = "secureDelete"
    /\ lastOp.size = 2 * bufferSize + 1
    /\ lastOp.plan.rand = {2}
    /\ lastOp.res.err = None
    /\ Len(lastOp.res.calls) = 4

\* C25: when removeFile, dropFile, dropAll or clearVault has deleted an
\* object, every byte of the object file was overwritten before the file was
\* unlinked.
C25_ObjectsOverwritten ==
    lastOp.op \in {"removeFile", "dropFile", "dropAll", "clearVault"} =>
        \A id \in ObjectIDs :
            (before.objects[id] # NoFile /\ disk.objects[id] = NoFile) =>
                LET size == nonceLength + Len(Get(before.objects[id]).pt)
                    calls == DeleteObjectCalls(size, FALSE).calls
                IN  \E k \in 1..Len(calls) :
                        calls[k].call = "remove" /\ written(calls, k - 1) >= size

\* C31: no two records of the index have the identical original name; names
\* that differ in letter case only may both be in the index.
C31_UniqueNames ==
    (disk.meta # NoFile /\ Decrypt(Get(disk.meta), Get(disk.meta).key).err = None) =>
        LET files == IndexOf(disk) IN
        \A i, j \in 1..Len(files) : files[i].name = files[j].name => i = j

\* a file is added under a name that an older record has in the other case
C31_Witness ==
    /\ lastOp.op = "addFile" /\ lastOp.err = None
    /\ \E i, j \in 1..Len(IndexOf(disk)) :
          /\ i < j
          /\ IndexOf(disk)[i].name # IndexOf(disk)[j].name
          /\ ToLower(IndexOf(disk)[i].name) = ToLower(IndexOf(disk)[j].name)
          /\ IndexOf(disk)[j].name = lastOp.arg

\* C32: addFile overwrites or unlinks the original only after the encrypted
\* object and the metadata blob that lists it have been written; when addFile
\* returns an error, or is killed before its deletion step, the original is
\* still there with the bytes it had.
C32_OriginalDeletedLast ==
    lastOp.op = "addFile" =>
        LET n == lastOp.arg
            u == unlockWithPassword(before, lastOp.pw)
            m == readMetadata(disk, u.key)
        IN
        /\ disk.files[n] # before.files[n] =>
              /\ u.err = None /\ m.err = None
              /\ \E i \in 1..Len(m.meta.files) :
                    /\ m.meta.files[i].name = n
                    /\ disk.objects[m.meta.files[i].id] # NoFile
                    /\ Decrypt(Get(disk.objects[m.meta.files[i].id]), u.key).err = None
                    /\ Decrypt(Get(disk.objects[m.meta.files[i].id]), u.key).pt
                          = Get(before.files[n])
        /\ lastOp.err # None => disk.files[n] = before.files[n]

\* the metadata write of an addFile failed with the original in the directory
C32_Witness ==
    /\ lastOp.op = "addFile"
    /\ <<"writeMeta", 1>> \in lastOp.ft.fail
    /\ lastOp.err = "StorageFailure"
    /\ disk.files[lastOp.arg] # NoFile

\* C33: initialize overwrites or unlinks an original only when every file it
\* found in the directory has its object written and its record in the
\* metadata blob on disk; when initialize returns an error every original is
\* still there with the bytes it had.
C33_InitializeDeletesLast ==
    lastOp.op = "initialize" =>
        /\ disk.files # before.files =>
              /\ disk.masterKey # NoFile /\ disk.meta # NoFile
              /\ LET masterKey == Get(disk.masterKey).pt
                      m == readMetadata(disk, masterKey)
                  IN  /\ m.err = None
                      /\ \A n \in FileNames :
                            before.files[n] # NoFile =>
                                \E i \in 1..Len(m.meta.files) :
                                    /\ m.meta.files[i].name = n
                                    /\ disk.objects[m.meta.files[i].id] # NoFile
                                    /\ Decrypt(Get(disk.objects[m.meta.files[i].id]),
                                               masterKey).pt = Get(before.files[n])
        /\ lastOp.err # None => disk.files = before.files

\* encrypting the second file failed after the first was stored
C33_Witness ==
    /\ lastOp.op = "initialize"
    /\ <<"writeObject", 2>> \in lastOp.ft.fail
    /\ lastOp.err = "StorageFailure"
    /\ \E id \in ObjectIDs : disk.objects[id] # NoFile
    /\ disk.files = before.files

\* ------------------------------------------------------------ dropping everything
\* a vault of three files on which extractions and clearings meet failing
\* storage steps, records that lost their object and damaged objects
NextDrop ==
    \/ Exit
    \/ \E pw \in InitPasswords, mk \in MasterKeys, rk \in FreshRecoveryKeys, s \in Salts :
          Initialize(pw, mk, rk, s, NoFault)
    \/ \E pw \in InitPasswords, n \in IndexNames : AddFile(pw, n, NoFault)
    \/ \E pw \in InitPasswords, ft \in {NoFault} \cup ExtractAllPlans :
          ExtractAllFiles(pw, ft)
    \/ \E pw \in InitPasswords, q \in IndexNames, ft \in {NoFault} \cup RemovePlans :
          RemoveFile(pw, q, ft)
    \/ \E pw \in Passwords, ft \in {NoFault} \cup ExtractAllPlans \cup ClearPlans :
          DropAllFiles(pw, ft)
    \/ \E id \in ObjectIDs, k \in TamperKinds, n \in TornLengths : DamageObject(id, k, n)

SpecDrop == InitIndex /\ [][NextDrop]_vars

\* C34: DropAllFiles clears the vault only when every record was extracted:
\* when a file of the index was not written out, dropAll returns an error,
\* no object is deleted and the metadata blob is as it was.
C34_DropAllAfterExtraction ==
    (lastOp.op = "dropAll" /\ before.masterKey # NoFile /\ before.meta # NoFile) =>
        LET masterKey == Get(before.masterKey).pt
            m == readMetadata(before, masterKey)
            extracted(f) ==
                /\ before.objects[f.id] # NoFile
                /\ Decrypt(Get(before.objects[f.id]), masterKey).err = None
                /\ f.name \in lastOp.out
                /\ disk.files[f.name] = Some(Decrypt(Get(before.objects[f.id]), masterKey).pt)
        IN
        (m.err = None /\ \E i \in 1..Len(m.meta.files) : ~extracted(m.meta.files[i])) =>
            /\ lastOp.err # None
            /\ disk.objects = before.objects
            /\ disk.meta = before.meta

\* the first file was written out, a later one was not
C34_Witness ==
    /\ lastOp.op = "dropAll"
    /\ lastOp.err # None
    /\ lastOp.out # {}
    /\ Len(IndexOf(before)) >= 2
    /\ disk.objects = before.objects

\* C35: no operation but initialize creates, changes or deletes the salt,
\* master.key or recovery.key file; after a successful initialize the three
\* files are always the ones initialize wrote.
C35_KeyFilesFrozen ==
    /\ lastOp.op \notin {"none", "initialize"} =>
          /\ disk.salt = before.salt
          /\ disk.masterKey = before.masterKey
          /\ disk.recoveryKey = before.recoveryKey
    /\ creds # NoFile =>
          \E mk \in MasterKeys, s \in Salts :
              /\ disk.salt = Some(s)
              /\ disk.masterKey = Some(EncryptMasterKey(mk, Get(creds).pw, s))
              /\ disk.recoveryKey =
                    Some(EncryptMasterKeyWithRecoveryKey(mk, Get(creds).rk))

\* the vault was cleared after files had been removed and added
C35_Witness ==
    /\ lastOp.op = "clearVault" /\ lastOp.err = None
    /\ nextId > MaxIds
    /\ \E id \in ObjectIDs : before.objects[id] # NoFile

\* C36: a clearVault that was stopped after it had deleted the objects of
\* the first two records or more, before the empty index was written, can be
\* completed:
\* the next clearVault with the right password and no failure returns no
\* error and leaves an empty index and none of the listed objects on disk.
C36_ClearCompletes ==
    (/\ lastOp.op = "clearVault" /\ RightPassword /\ lastOp.ft = NoFault
     /\ faults > 0
     /\ before.meta # NoFile
     /\ Len(IndexOf(before)) >= 2
     /\ before.objects[IndexOf(before)[1].id] = NoFile
     /\ before.objects[IndexOf(before)[2].id] = NoFile) =>
        /\ lastOp.err = None
        /\ IndexOf(disk) = <<>>
        /\ \A i \in 1..Len(IndexOf(before)) : disk.objects[IndexOf(before)[i].id] = NoFile
====
